---- MODULE Spec2Model ----
(***************************************************************************)
(* Content pipeline of aicrawler: URL canonicalisation and dedup keys,     *)
(* discovery and manual article creation, the article lifecycle driven by  *)
(* the fetcher and the enrichment engine, and tag materialisation.         *)
(*                                                                         *)
(* A URL is a sequence of tokens: the delimiters ":" "/" "?" "#" "&" "="   *)
(* "." are tokens of their own, every maximal run of other characters is   *)
(* one token.  urlparse/urlunparse work on these sequences as the Python   *)
(* functions work on the characters.                                       *)
(***************************************************************************)
EXTENDS Integers, Sequences, FiniteSets, TLC

VARIABLES
    articles,      \* table articles: sequence of rows, id = index
    contents,      \* table article_content: sequence of rows (article_id unique)
    tags,          \* table tags: sequence of rows, id = index
    article_tags,  \* table article_tags: sequence of rows
    executions,    \* table search_executions: sequence of rows
    raised,        \* the last handler ended with an exception instead of returning
    url_in,        \* the URL handed to the canonicaliser
    url_var,       \* a second URL compared with url_in
    url_out,       \* what the canonicaliser returned, in call order
    url_pc,        \* which calls of the canonicaliser have been made
    digests,             \* table digests: sequence of rows, id = index
    digest_sections,     \* table digest_sections: sequence of rows, id = index
    digest_articles,     \* table digest_articles: sequence of rows
    digest_pc,           \* where the running generate_digest call stands
    reading_lists,       \* table reading_lists: sequence of rows, id = index
    reading_list_items,  \* table reading_list_items: sequence of rows
    interrogation_log,   \* table interrogation_log: sequence of rows
    retrieved,           \* the plan and the articles of the last process_query call
    words_in,            \* the word count handed to the reading-time estimate
    minutes_out,         \* the estimates made, each with its word count, in call order
    client_status,       \* the status code of the last answer a test client received
    runs,                \* where each invocation of enrich_pending_articles stands
    searches             \* where each invocation of run_search_job stands

url_vars == <<url_in, url_var, url_out, url_pc>>
store_vars == <<articles, contents, tags, article_tags, executions, raised>>
digest_vars == <<digests, digest_sections, digest_articles, digest_pc>>
harness_vars == <<words_in, minutes_out, client_status>>
query_vars == <<reading_lists, reading_list_items, interrogation_log, retrieved>>
vars == <<articles, contents, tags, article_tags, executions, raised,
          url_in, url_var, url_out, url_pc,
          digests, digest_sections, digest_articles, digest_pc,
          reading_lists, reading_list_items, interrogation_log, retrieved,
          words_in, minutes_out, client_status, runs, searches>>

\* None in a text column
NULL == "NULL"
\* None in a numeric column
NONE == -1

(***************************************************************************)
(* Token helpers                                                           *)
(***************************************************************************)

\* str.lower() on one token
Lower(t) ==
    CASE t = "HTTP" -> "http"
      [] t = "HTTPS" -> "https"
      [] t = "WWW" -> "www"
      [] t = "UTM_SOURCE" -> "utm_source"
      [] OTHER -> t

LowerSeq(s) == [i \in 1..Len(s) |-> Lower(s[i])]

\* tokens made of ASCII letters only
AlphaTokens == {"http", "https", "httpx", "HTTP", "HTTPS", "www", "WWW", "a", "x", "y",
                "com", "b", "c", "fb", "frag", "ref", "fbclid", "gclid", "source"}
\* tokens made of digits only
DigitTokens == {"1", "2", "80", "443", "8080"}

\* characters urlsplit accepts in a scheme: letters, digits, "+", "-", "."
SchemeTokens == AlphaTokens \cup DigitTokens \cup {"."}

\* urllib.parse.uses_netloc, restricted to the schemes of the token alphabet
UsesNetloc == {<<"http">>, <<"https">>}

\* str.find: index of the first token of s that lies in T, 0 if none
IndexOf(s, T) ==
    IF \E i \in 1..Len(s) : s[i] \in T
    THEN CHOOSE i \in 1..Len(s) : s[i] \in T /\ \A j \in 1..(i-1) : s[j] \notin T
    ELSE 0

Drop(s, n) == SubSeq(s, n + 1, Len(s))
Take(s, n) == SubSeq(s, 1, n)

\* int(port) for the port tokens of the alphabet
PortValue(t) ==
    CASE t = "80" -> 80
      [] t = "443" -> 443
      [] t = "8080" -> 8080
      [] t = "1" -> 1
      [] t = "2" -> 2
      [] OTHER -> 0

(***************************************************************************)
(* urllib.parse.urlparse                                                   *)
(***************************************************************************)

\* urlsplit: url[:i] is a scheme when it starts with a letter and holds only
\* scheme characters
HasScheme(url, i) ==
    /\ i > 1
    /\ url[1] \in AlphaTokens
    /\ \A j \in 1..(i-1) : url[j] \in SchemeTokens

\* urlsplit: scheme, url = url[:i].lower(), url[i+1:]
SplitScheme(url, i) ==
    IF HasScheme(url, i)
    THEN [scheme |-> LowerSeq(Take(url, i - 1)), rest |-> Drop(url, i)]
    ELSE [scheme |-> <<>>, rest |-> url]

\* s cut before its token i (all of s when i = 0)
CutBefore(s, i) ==
    [head |-> IF i = 0 THEN s ELSE Take(s, i - 1),
     tail |-> IF i = 0 THEN <<>> ELSE Drop(s, i - 1)]

\* s cut at its token i, which is dropped (all of s when i = 0)
CutAt(s, i) ==
    [head |-> IF i = 0 THEN s ELSE Take(s, i - 1),
     tail |-> IF i = 0 THEN <<>> ELSE Drop(s, i)]

\* _splitnetloc(url, 2): the netloc ends before the first "/", "?" or "#"
SplitNetlocFrom(r) == CutBefore(r, IndexOf(r, {"/", "?", "#"}))

\* urlsplit: if url[:2] == '//': netloc, url = _splitnetloc(url, 2)
SplitNetloc(r) ==
    IF Len(r) >= 2 /\ r[1] = "/" /\ r[2] = "/"
    THEN SplitNetlocFrom(Drop(r, 2))
    ELSE [head |-> <<>>, tail |-> r]

\* ParseResult with the attributes hostname and port
ParseResult(scheme, netloc, pq, fragment, c) ==
    [scheme   |-> scheme,
     netloc   |-> netloc,
     \* ParseResult.hostname: the part before ":", lower-cased
     hostname |-> LowerSeq(IF c = 0 THEN netloc ELSE Take(netloc, c - 1)),
     \* ParseResult.port: int of the part after ":", 0 for None
     port     |-> IF c = 0 \/ c = Len(netloc) THEN 0 ELSE PortValue(netloc[c + 1]),
     porttok  |-> IF c = 0 \/ c = Len(netloc) THEN <<>> ELSE <<netloc[c + 1]>>,
     path     |-> pq.head,
     query    |-> pq.tail,
     fragment |-> fragment]

\* urlsplit: if '?' in url: url, query = url.split('?', 1)
SplitQuery(scheme, netloc, uf) ==
    ParseResult(scheme, netloc, CutAt(uf.head, IndexOf(uf.head, {"?"})), uf.tail,
                IndexOf(netloc, {":"}))

\* urlsplit: if '#' in url: url, fragment = url.split('#', 1)
SplitFragment(scheme, n) ==
    SplitQuery(scheme, n.head, CutAt(n.tail, IndexOf(n.tail, {"#"})))

SplitRest(s) == SplitFragment(s.scheme, SplitNetloc(s.rest))

urlparse(url) == SplitRest(SplitScheme(url, IndexOf(url, {":"})))

(***************************************************************************)
(* urllib.parse.urlunparse                                                 *)
(***************************************************************************)

\* urlunsplit: if url and url[:1] != '/': url = '/' + url
Slashed(path) == IF path # <<>> /\ path[1] # "/" THEN <<"/">> \o path ELSE path

\* urlunsplit: netloc or (scheme and scheme in uses_netloc and url[:2] != '//')
WithNetloc(scheme, netloc, path) ==
    \/ netloc # <<>>
    \/ /\ scheme # <<>>
       /\ scheme \in UsesNetloc
       /\ ~(Len(path) >= 2 /\ path[1] = "/" /\ path[2] = "/")

urlunparse(scheme, netloc, path, query, fragment) ==
    (IF scheme # <<>> THEN scheme \o <<":">> ELSE <<>>)
    \o (IF WithNetloc(scheme, netloc, path)
        THEN <<"/", "/">> \o netloc \o Slashed(path)
        ELSE path)
    \o (IF query # <<>> THEN <<"?">> \o query ELSE <<>>)
    \o (IF fragment # <<>> THEN <<"#">> \o fragment ELSE <<>>)

(***************************************************************************)
(* urllib.parse.parse_qs / urlencode                                       *)
(***************************************************************************)

\* urllib.parse.quote_plus on one token: letters, digits and "_.-~" are safe
Quote(t) ==
    CASE t = ":" -> "%3A"
      [] t = "/" -> "%2F"
      [] t = "?" -> "%3F"
      [] t = "=" -> "%3D"
      [] OTHER -> t

\* urllib.parse.unquote on one token
Unquote(t) ==
    CASE t = "%3A" -> ":"
      [] t = "%2F" -> "/"
      [] t = "%3F" -> "?"
      [] t = "%3D" -> "="
      [] OTHER -> t

QuoteSeq(s) == [i \in 1..Len(s) |-> Quote(s[i])]
UnquoteSeq(s) == [i \in 1..Len(s) |-> Unquote(s[i])]

\* str.split(sep): the pieces of s between the occurrences of sep
RECURSIVE Split(_, _)
Split(s, sep) ==
    LET i == IndexOf(s, {sep})
    IN  IF i = 0 THEN <<s>> ELSE <<Take(s, i - 1)>> \o Split(Drop(s, i), sep)

\* parse_qsl(query, keep_blank_values=False): the (name, value) pairs in order
RECURSIVE QslOf(_)
QslOf(pieces) ==
    IF pieces = <<>> THEN <<>>
    ELSE LET nv == Head(pieces)
             e == IndexOf(nv, {"="})
         IN  IF nv = <<>> \/ e = 0 \/ e = Len(nv)
             THEN QslOf(Tail(pieces))
             ELSE <<[name |-> UnquoteSeq(Take(nv, e - 1)),
                     value |-> UnquoteSeq(Drop(nv, e))]>> \o QslOf(Tail(pieces))

parse_qsl(query) == IF query = <<>> THEN <<>> ELSE QslOf(Split(query, "&"))

\* the tokens of the alphabet in the order of Python's string comparison
TokenOrder == <<".", "/", "1", "2", "443", "80", "8080", ":", "=", "?",
                "HTTP", "HTTPS", "UTM_SOURCE", "WWW",
                "a", "b", "c", "com", "fb", "fbclid", "frag", "gclid", "http",
                "https", "mc_cid", "mc_eid", "ref", "source", "utm_campaign",
                "utm_content", "utm_medium", "utm_source", "utm_term", "www",
                "x", "y">>

TokenRank(t) ==
    IF \E i \in 1..Len(TokenOrder) : TokenOrder[i] = t
    THEN CHOOSE i \in 1..Len(TokenOrder) : TokenOrder[i] = t
    ELSE 0

\* a < b for two strings given as token sequences
RECURSIVE StrLess(_, _)
StrLess(a, b) ==
    IF b = <<>> THEN FALSE
    ELSE IF a = <<>> THEN TRUE
    ELSE IF TokenRank(Head(a)) # TokenRank(Head(b))
         THEN TokenRank(Head(a)) < TokenRank(Head(b))
         ELSE StrLess(Tail(a), Tail(b))

\* sorted(params.items()): the distinct names in increasing order
RECURSIVE SortedNames(_)
SortedNames(S) ==
    IF S = {} THEN <<>>
    ELSE LET m == CHOOSE k \in S : \A o \in S \ {k} : StrLess(k, o)
         IN  <<m>> \o SortedNames(S \ {m})

\* urlencode(..., doseq=True) of one name with its values, in order
RECURSIVE EncodeName(_, _)
EncodeName(k, pairs) ==
    IF pairs = <<>> THEN <<>>
    ELSE LET rest == EncodeName(k, Tail(pairs))
         IN  IF Head(pairs).name = k
             THEN <<QuoteSeq(k) \o <<"=">> \o QuoteSeq(Head(pairs).value)>> \o rest
             ELSE rest

RECURSIVE JoinAmp(_)
JoinAmp(items) ==
    IF items = <<>> THEN <<>>
    ELSE IF Len(items) = 1 THEN Head(items)
    ELSE Head(items) \o <<"&">> \o JoinAmp(Tail(items))

RECURSIVE EncodeAll(_, _)
EncodeAll(names, pairs) ==
    IF names = <<>> THEN <<>>
    ELSE EncodeName(Head(names), pairs) \o EncodeAll(Tail(names), pairs)

(***************************************************************************)
(* app/services/dedup.py                                                   *)
(***************************************************************************)

TRACKING_PARAMS == {<<"utm_source">>, <<"utm_medium">>, <<"utm_campaign">>,
                    <<"utm_term">>, <<"utm_content">>, <<"fbclid">>, <<"gclid">>,
                    <<"ref">>, <<"source">>, <<"mc_cid">>, <<"mc_eid">>}

\* host.startswith("www."): host = host[4:]  (once)
StripWww(host) ==
    IF Len(host) >= 2 /\ host[1] = "www" /\ host[2] = "." THEN Drop(host, 2) ELSE host

\* path.rstrip("/")
RECURSIVE RstripSlash(_)
RstripSlash(path) ==
    IF path # <<>> /\ path[Len(path)] = "/" THEN RstripSlash(Take(path, Len(path) - 1))
    ELSE path

\* the operands of "or" exchanged: "/" or path.rstrip("/")
NormPathRootFirst(path) == <<"/">>

\* the path component of the normalized URL
NormPath(path) == IF RstripSlash(path) = <<>> THEN <<"/">> ELSE RstripSlash(path)

\* {k: v for k, v in sorted(params.items()) if k.lower() not in TRACKING_PARAMS}
KeptNames(pairs) ==
    {k \in {pairs[i].name : i \in 1..Len(pairs)} : LowerSeq(k) \notin TRACKING_PARAMS}

\* urlencode(filtered, doseq=True)
EncodeKept(pairs) == JoinAmp(EncodeAll(SortedNames(KeptNames(pairs)), pairs))

\* the query component of the normalized URL
NormQuery(query) == EncodeKept(parse_qsl(query))

\* f"{host}{port}": the port is kept unless it is None, 0, 80 or 443
HostPort(host, port, porttok) ==
    host \o (IF port # 0 /\ port \notin {80, 443} THEN <<":">> \o porttok ELSE <<>>)

\* normalize_url after urlparse
Normalized(parsed) ==
    urlunparse(IF parsed.scheme = <<>> THEN <<"https">> ELSE parsed.scheme,
               HostPort(StripWww(parsed.hostname), parsed.port, parsed.porttok),
               NormPath(parsed.path),
               NormQuery(parsed.query),
               <<>>)

normalize_url(url) == Normalized(urlparse(url))

\* sha256(...).hexdigest(): collision-free on the URLs of the model
url_hash(url) == <<"sha256">> \o normalize_url(url)

(***************************************************************************)
(* The URLs the canonicaliser is exercised on                              *)
(***************************************************************************)

UrlSchemes == {<<>>, <<"https", ":", "/", "/">>, <<"HTTP", ":", "/", "/">>}
UrlHosts == {<<"x", ".", "com">>, <<"www", ".", "x", ".", "com">>,
             <<"WWW", ".", "x", ".", "com">>,
             <<"www", ".", "www", ".", "x", ".", "com">>}
UrlPorts == {<<>>, <<":", "443">>, <<":", "8080">>}
UrlPaths == {<<>>, <<"/">>, <<"/", "a">>, <<"/", "a", "/">>, <<"/", "b">>}
UrlQueries == {<<>>, <<"?", "b", "=", "1">>, <<"?", "utm_source", "=", "fb">>,
               <<"?", "b", "=", "1", "&", "a", "=", "2">>,
               <<"?", "a", "=", "2", "&", "UTM_SOURCE", "=", "fb">>,
               <<"?", "b", "=">>}
UrlFragments == {<<>>, <<"#", "frag">>}

Urls == {s \o h \o p \o pa \o q \o f :
            s \in UrlSchemes, h \in UrlHosts, p \in UrlPorts,
            pa \in UrlPaths, q \in UrlQueries, f \in UrlFragments}

\* number of tokens of a parsed URL from its "?" (or "#") to its end
SuffixLen(P) ==
    (IF P.query # <<>> THEN 1 + Len(P.query) ELSE 0)
    + (IF P.fragment # <<>> THEN 1 + Len(P.fragment) ELSE 0)

\* url, parsed as P, with its path component replaced by path
ReplacePath(url, P, path) ==
    Take(url, Len(url) - SuffixLen(P) - Len(P.path))
    \o path
    \o Drop(url, Len(url) - SuffixLen(P))

\* url, parsed as P, with text inserted after its first n tokens
InsertAt(url, n, text) == Take(url, n) \o text \o Drop(url, n)

VariantKinds == {"www", "tracking", "slash", "fragment"}

\* a parsed URL has the variant k when it has the component the variant changes
HasVariantOf(k, P) ==
    CASE k = "www" -> P.netloc # <<>>
      [] k = "fragment" -> P.fragment = <<>>
      [] OTHER -> TRUE

HasVariant(k, url) == HasVariantOf(k, urlparse(url))

\* url, parsed as P, changed only by a leading "www.", a tracking parameter, a
\* trailing slash or a fragment
VariantOf(k, url, P) ==
    CASE k = "www" ->
            InsertAt(url, Len(url) - SuffixLen(P) - Len(P.path) - Len(P.netloc),
                     <<"www", ".">>)
      [] k = "tracking" ->
            InsertAt(url,
                     Len(url) - (IF P.fragment # <<>> THEN 1 + Len(P.fragment) ELSE 0),
                     (IF P.query = <<>> THEN <<"?">> ELSE <<"&">>)
                     \o <<"utm_source", "=", "fb">>)
      [] k = "slash" -> ReplacePath(url, P, P.path \o <<"/">>)
      [] k = "fragment" -> url \o <<"#", "frag">>

Variant(k, url) == VariantOf(k, url, urlparse(url))

(***************************************************************************)
(* Store: articles, discovery and manual creation                          *)
(***************************************************************************)

\* most rows the articles table is allowed to grow to
MaxArticles == 3
\* most rows the search_executions table is allowed to grow to
MaxExecutions == 2

ArticleStatuses == {"pending", "fetched", "fetch_failed", "enriched", "error"}

\* the URLs that citations and manual entries are drawn from
PoolA == <<"https", ":", "/", "/", "x", ".", "com", "/", "a">>
PoolATracked == PoolA \o <<"?", "utm_source", "=", "fb">>
PoolB == <<"https", ":", "/", "/", "www", ".", "x", ".", "com", "/", "b", "/">>
PoolNoHttp == <<"/", "/", "x", ".", "com", "/", "b">>
PoolC == <<"https", ":", "/", "/", "x", ".", "com", "/", "b">>
PoolHttpx == <<"httpx", ":", "/", "/", "x", ".", "com", "/", "c">>
PoolUpper == <<"HTTPS", ":", "/", "/", "x", ".", "com", "/", "c">>
PoolUrls == {PoolA, PoolATracked, PoolB}
\* the URLs of the articles the pipeline is run on
PipelineUrls == {PoolA, PoolC}

\* Article(...): a new row in pending
NewArticle(url, hash, authors) ==
    [url |-> url, url_hash |-> hash, status |-> "pending", authors |-> authors,
     content_type |-> "article", summary |-> NULL, key_findings |-> NULL,
     relevance_score |-> NONE, word_count |-> NONE, reading_time_minutes |-> NONE]

\* the lookup done on the hash of the stored, unnormalized URL
ExistingHashOfRawUrl(arts, hash) ==
    \E i \in 1..Len(arts) : <<"sha256">> \o arts[i].url = hash

\* db.query(Article).filter(Article.url_hash == hash_).first()
ExistingHash(arts, hash) == \E i \in 1..Len(arts) : arts[i].url_hash = hash

\* the tokens of the alphabet whose first four characters are "http"
HttpPrefixed == {"http", "https", "httpx"}

\* url.startswith("http")
StartsWithHttp(url) == url # <<>> /\ url[1] \in HttpPrefixed

\* _parse_citations: the http(s) citations, without exact repetitions
RECURSIVE ParseCitations(_, _)
ParseCitations(citations, seen_urls) ==
    IF citations = <<>> THEN <<>>
    ELSE LET url == Head(citations)
         IN  IF ~StartsWithHttp(url) \/ url \in seen_urls
             THEN ParseCitations(Tail(citations), seen_urls)
             ELSE <<url>> \o ParseCitations(Tail(citations), seen_urls \cup {url})

\* the candidate loop of run_search_job: the articles table after the loop
RECURSIVE AddCandidates(_, _)
AddCandidates(arts, candidates) ==
    IF candidates = <<>> THEN arts
    ELSE LET url == Head(candidates)
             hash == url_hash(url)
         IN  IF ExistingHash(arts, hash)
             THEN AddCandidates(arts, Tail(candidates))
             ELSE AddCandidates(Append(arts, NewArticle(url, hash, <<>>)),
                                Tail(candidates))

\* what search_perplexity returns: None (absent), or the citations of a result;
\* fault tells where the session fails during the run: "none", "start" (the
\* commit of the new execution row raises, before the try block) or "record"
\* (the commit after the candidate loop raises and so does the commit of the
\* except block)
SearchResult(absent, citations, fault) ==
    [absent |-> absent, citations |-> citations, fault |-> fault]

NoResult == SearchResult(TRUE, <<>>, "none")
TrackedThenPlain == SearchResult(FALSE, <<PoolATracked, PoolA>>, "none")

SearchResults == {NoResult,
                  TrackedThenPlain,
                  SearchResult(FALSE, <<PoolA, PoolA, PoolB>>, "none"),
                  SearchResult(FALSE, <<PoolNoHttp, PoolB>>, "none"),
                  SearchResult(FALSE, <<PoolHttpx>>, "none"),
                  SearchResult(FALSE, <<PoolUpper, PoolA>>, "none")}

\* SearchExecution(search_job_id=job.id, status="running") as committed
RunningExecution(job) ==
    [search_job_id |-> job, status |-> "running", articles_found |-> 0,
     articles_new |-> 0, error_message |-> NULL, finished |-> FALSE]

\* the execution row left in running, with no message and no finish time
FailedExecutionUnrecorded(job) == RunningExecution(job)

\* the execution row of a run whose search returned nothing
FailedExecution(job) ==
    [search_job_id |-> job, status |-> "error", articles_found |-> 0,
     articles_new |-> 0, error_message |-> "Perplexity API returned no result",
     finished |-> TRUE]

\* the execution row of a run whose candidate loop ended
CompletedExecution(job, found, new_count) ==
    [search_job_id |-> job, status |-> "completed", articles_found |-> found,
     articles_new |-> new_count, error_message |-> NULL, finished |-> TRUE]

\* the candidates found and the table after the loop, as an execution
LoopOutcome(arts, job, candidates, after) ==
    [articles |-> after,
     execution |-> CompletedExecution(job, Len(candidates), Len(after) - Len(arts)),
     recorded |-> TRUE, raised |-> FALSE]

\* the effect of run_search_job(db, job) on the store, with its execution row;
\* recorded = a row of search_executions was committed, raised = an exception
\* left the function
SearchJobRun(arts, job, result) ==
    CASE result.fault = "start" ->
            [articles |-> arts, execution |-> RunningExecution(job),
             recorded |-> FALSE, raised |-> TRUE]
      [] result.fault = "record" ->
            [articles |-> arts, execution |-> RunningExecution(job),
             recorded |-> TRUE, raised |-> TRUE]
      [] result.fault = "none" /\ result.absent ->
            [articles |-> arts, execution |-> FailedExecution(job),
             recorded |-> TRUE, raised |-> FALSE]
      [] OTHER ->
            LoopOutcome(arts, job, ParseCitations(result.citations, {}),
                        AddCandidates(arts, ParseCitations(result.citations, {})))

\* the enabled rows of search_jobs
EnabledJobs == <<1, 2>>

\* search_executions after a run
Recorded(execs, run) == IF run.recorded THEN Append(execs, run.execution) ELSE execs

run_search_job(job, result) ==
    /\ UNCHANGED <<searches, runs, contents, tags, article_tags, url_vars, harness_vars, digest_vars, query_vars>>
    /\ Len(executions) < MaxExecutions
    /\ LET run == SearchJobRun(articles, job, result)
       IN  /\ Len(run.articles) <= MaxArticles
           /\ articles' = run.articles
           /\ executions' = Recorded(executions, run)
           /\ raised' = run.raised

\* the loop of run_all_search_jobs over jobs, from store arts and stats; an
\* exception leaves the loop and the function
RECURSIVE RunJobs(_, _, _, _, _)
RunJobs(arts, execs, stats, jobs, results) ==
    IF jobs = <<>>
    THEN [articles |-> arts, executions |-> execs, stats |-> stats, raised |-> FALSE]
    ELSE LET run == SearchJobRun(arts, Head(jobs), Head(results))
         IN  IF run.raised
             THEN [articles |-> run.articles, executions |-> Recorded(execs, run),
                   stats |-> stats, raised |-> TRUE]
             ELSE RunJobs(run.articles, Recorded(execs, run),
                          [jobs_run |-> stats.jobs_run + 1,
                           total_found |-> stats.total_found
                                           + run.execution.articles_found,
                           total_new |-> stats.total_new + run.execution.articles_new],
                          Tail(jobs), Tail(results))

run_all_search_jobs(results) ==
    /\ UNCHANGED <<searches, runs, contents, tags, article_tags, url_vars, harness_vars, digest_vars, query_vars>>
    /\ Len(executions) + Len(EnabledJobs) <= MaxExecutions
    /\ LET all == RunJobs(articles, executions,
                          [jobs_run |-> 0, total_found |-> 0, total_new |-> 0],
                          EnabledJobs, results)
       IN  /\ Len(all.articles) <= MaxArticles
           /\ articles' = all.articles
           /\ executions' = all.executions
           /\ raised' = all.raised

\* the author lists a manual entry may carry
AuthorInputs == {<<>>, <<"ann">>}

\* the API handler without the lookup of the key
CreateArticleUnchecked(arts, url, hash_val, authors) ==
    [articles |-> Append(arts, NewArticle(normalize_url(url), hash_val, authors)),
     status_code |-> 201]

\* the body of create_article: the table after it and the status code of the
\* answer; the conflict is answered with HTTPException(409)
CreateArticle(arts, url, hash_val, authors) ==
    IF ExistingHash(arts, hash_val)
    THEN [articles |-> arts, status_code |-> 409]
    ELSE [articles |-> Append(arts, NewArticle(normalize_url(url), hash_val, authors)),
          status_code |-> 201]

\* the body of add_article: the conflict is answered by returning the form
\* again with status 409, a creation by a redirect to the article
AddArticle(arts, url, hash_, authors) ==
    IF ExistingHash(arts, hash_)
    THEN [articles |-> arts, status_code |-> 409]
    ELSE [articles |-> Append(arts, NewArticle(url, hash_, authors)),
          status_code |-> 303]

\* POST /api/v1/articles
create_article(url, authors) ==
    /\ UNCHANGED <<searches, runs, contents, tags, article_tags, executions, url_vars, harness_vars, digest_vars, query_vars>>
    /\ raised' = FALSE
    /\ LET r == CreateArticle(articles, url, url_hash(url), authors)
       IN  /\ Len(r.articles) <= MaxArticles
           /\ articles' = r.articles

\* POST /articles/add (web form)
add_article(url, authors) ==
    /\ UNCHANGED <<searches, runs, contents, tags, article_tags, executions, url_vars, harness_vars, digest_vars, query_vars>>
    /\ raised' = FALSE
    /\ LET r == AddArticle(articles, url, url_hash(url), authors)
       IN  /\ Len(r.articles) <= MaxArticles
           /\ articles' = r.articles

(***************************************************************************)
(* Content fetcher                                                         *)
(***************************************************************************)

WPM == 238

\* round(n / d) with halves going up
RoundHalfUp(n, d) == (2 * n + d) \div (2 * d)

\* round(n / d) as Python computes it: halves go to the even neighbour
Round(n, d) ==
    LET q == n \div d
        r == n % d
    IN  IF 2 * r < d THEN q
        ELSE IF 2 * r > d THEN q + 1
        ELSE IF q % 2 = 0 THEN q ELSE q + 1

Max(a, b) == IF a >= b THEN a ELSE b

estimate_reading_time(word_count) ==
    IF word_count <= 0 THEN 1 ELSE Max(1, Round(word_count, WPM))

\* f"HTTP {response.status_code}" with every code sent as 404
HttpErrorTextFixed(code) == "HTTP 404"

\* f"HTTP {response.status_code}" on the codes of the model
HttpErrorText(code) ==
    CASE code = 404 -> "HTTP 404"
      [] code = 503 -> "HTTP 503"
      [] OTHER -> "HTTP other"

\* str(e)[:500] on the messages of the model: "long" stands for a message of
\* more than 500 characters
Truncate500(text, chars) ==
    IF chars <= 500 THEN text
    ELSE CASE text = "long" -> "long[:500]"
           [] OTHER -> "other[:500]"

\* what one HTTP GET and the extraction of its body can produce:
\* kind "http" (a response with its status code, and for 200 the paywall flag,
\* the extracted text with the length of extracted.strip() in characters and
\* its length in words, the extracted author), "timeout"
\* (httpx.TimeoutException), "exception" (any other raised inside the try
\* block, with its message as text and the length of the message as chars) or "db_error" (the session raises in the get-or-create
\* of the content row, before the try block is entered)
Outcome(kind, code, paywall, text, chars, words, author) ==
    [kind |-> kind, code |-> code, paywall |-> paywall, text |-> text,
     chars |-> chars, words |-> words, author |-> author]

NotFound == Outcome("http", 404, FALSE, NULL, 0, 0, NULL)
FullText == Outcome("http", 200, FALSE, "full", 2000, 357, "bob")
DbError == Outcome("db_error", 0, FALSE, NULL, 0, 0, NULL)

FetchOutcomes ==
    {NotFound,
     Outcome("http", 503, FALSE, NULL, 0, 0, NULL),
     Outcome("timeout", 0, FALSE, NULL, 0, 0, NULL),
     Outcome("exception", 0, FALSE, "boom", 4, 0, NULL),
     Outcome("exception", 0, FALSE, "long", 600, 0, NULL),
     Outcome("http", 200, FALSE, NULL, 0, 0, NULL),
     Outcome("http", 200, TRUE, "stub", 60, 9, NULL),
     Outcome("http", 200, TRUE, "teaser", 900, 150, NULL),
     Outcome("http", 200, FALSE, "short", 99, 20, NULL),
     Outcome("http", 200, TRUE, "brief", 100, 199, NULL),
     Outcome("http", 200, TRUE, "gated", 1300, 200, NULL),
     Outcome("http", 200, FALSE, "note", 600, 100, NULL),
     FullText}

\* hashlib.sha256(extracted.encode()).hexdigest(): collision-free on the texts
Sha256(text) ==
    CASE text = "stub" -> "sha256:stub"
      [] text = "teaser" -> "sha256:teaser"
      [] text = "full" -> "sha256:full"
      [] text = "brief" -> "sha256:brief"
      [] text = "gated" -> "sha256:gated"
      [] text = "note" -> "sha256:note"
      [] OTHER -> "sha256:other"

\* db.query(ArticleContent).filter(article_id == id).first(): row index, 0 if none
ContentIndex(cs, id) ==
    IF \E k \in 1..Len(cs) : cs[k].article_id = id
    THEN CHOOSE k \in 1..Len(cs) :
            cs[k].article_id = id /\ \A j \in 1..(k-1) : cs[j].article_id # id
    ELSE 0

\* ArticleContent(article_id=..., fetch_status="pending")
NewContent(id) ==
    [article_id |-> id, fetch_status |-> "pending", fetch_error |-> NULL,
     http_status |-> NONE, full_text |-> NULL, content_hash |-> NULL,
     word_count |-> NONE, extracted_author |-> NULL]

\* not extracted or len(extracted.strip()) < 100
TooShort(o) == o.text = NULL \/ o.chars < 100

\* a paywalled text of up to 200 words taken for partial
IsPartialInclusive(o) == o.paywall /\ o.words <= 200

\* is_paywall and len(extracted.split()) < 200
IsPartial(o) == o.paywall /\ o.words < 200

\* the content row and the article row after fetch_article_content, with the
\* value it returns
FetchResult(article, content, o) ==
    LET failed(c, error) ==
            [content |-> [c EXCEPT !.fetch_status = "failed", !.fetch_error = error],
             article |-> [article EXCEPT !.status = "fetch_failed"],
             success |-> FALSE]
        got == [content EXCEPT !.http_status = o.code]
    IN  CASE o.kind = "timeout" -> failed(content, "Request timed out")
          [] o.kind = "exception" -> failed(content, Truncate500(o.text, o.chars))
          [] o.kind = "http" /\ o.code # 200 -> failed(got, HttpErrorText(o.code))
          [] o.kind = "http" /\ o.code = 200 /\ TooShort(o) ->
                IF o.paywall
                THEN [content |-> [got EXCEPT
                                     !.fetch_status = "paywall",
                                     !.fetch_error = "Content appears to be behind a paywall"],
                      article |-> [article EXCEPT !.status = "fetch_failed"],
                      success |-> FALSE]
                ELSE failed(got, "Could not extract meaningful content")
          [] OTHER ->
                LET partial == IsPartial(o)
                    stored == [got EXCEPT
                                 !.full_text = o.text,
                                 !.content_hash = Sha256(o.text),
                                 !.word_count = o.words,
                                 !.fetch_status = IF partial THEN "partial" ELSE "success",
                                 !.fetch_error = IF partial
                                                 THEN "Partial content - possible paywall"
                                                 ELSE @,
                                 !.extracted_author = IF o.author # NULL THEN o.author ELSE @]
                    authored == IF o.author # NULL /\ article.authors = <<>>
                                THEN [article EXCEPT !.authors = <<o.author>>]
                                ELSE article
                IN  [content |-> stored,
                     article |-> IF stored.word_count # 0
                                 THEN [authored EXCEPT
                                         !.status = "fetched",
                                         !.word_count = stored.word_count,
                                         !.reading_time_minutes =
                                             Max(1, Round(stored.word_count, 238))]
                                 ELSE [authored EXCEPT !.status = "fetched"],
                     success |-> TRUE]

\* fetch_article_content(db, article) on the store: tables after, value returned;
\* raised = an exception left the function and nothing of it was committed
FetchArticleContent(arts, cs, id, o) ==
    LET k == ContentIndex(cs, id)
        cs1 == IF k = 0 THEN Append(cs, NewContent(id)) ELSE cs
        k1 == IF k = 0 THEN Len(cs1) ELSE k
        r == FetchResult(arts[id], cs1[k1], o)
    IN  IF o.kind = "db_error"
        THEN [articles |-> arts, contents |-> cs, success |-> FALSE, raised |-> TRUE]
        ELSE [articles |-> [arts EXCEPT ![id] = r.article],
              contents |-> [cs1 EXCEPT ![k1] = r.content],
              success |-> r.success, raised |-> FALSE]

\* POST /api/v1/articles/{article_id}/fetch
fetch_article(id, o) ==
    /\ UNCHANGED <<searches, runs, tags, article_tags, executions, url_vars, harness_vars, digest_vars, query_vars>>
    /\ id \in 1..Len(articles)
    /\ LET r == FetchArticleContent(articles, contents, id, o)
       IN  /\ articles' = r.articles
           /\ contents' = r.contents
           /\ raised' = r.raised

\* the batch sizes the batches are invoked with
BatchSizes == {1, 2}

\* the ids of the first n rows, oldest first, whose status lies in S
RECURSIVE SelectFrom(_, _, _, _)
SelectFrom(arts, S, n, from) ==
    IF n = 0 \/ from > Len(arts) THEN <<>>
    ELSE IF arts[from].status \in S
         THEN <<from>> \o SelectFrom(arts, S, n - 1, from + 1)
         ELSE SelectFrom(arts, S, n, from + 1)

SelectByStatus(arts, S, n) == SelectFrom(arts, S, n, 1)

\* the loop of fetch_pending_articles over the selected ids; an exception
\* leaves the loop and the function
RECURSIVE FetchLoop(_, _, _, _, _, _)
FetchLoop(arts, cs, stats, calls, ids, os) ==
    IF ids = <<>>
    THEN [articles |-> arts, contents |-> cs, stats |-> stats, calls |-> calls,
          raised |-> FALSE]
    ELSE LET r == FetchArticleContent(arts, cs, Head(ids), Head(os))
         IN  IF r.raised
             THEN [articles |-> arts, contents |-> cs, stats |-> stats,
                   calls |-> Append(calls, Head(ids)), raised |-> TRUE]
             ELSE FetchLoop(r.articles, r.contents,
                            IF r.success
                            THEN [stats EXCEPT !.success = @ + 1]
                            ELSE [stats EXCEPT !.failed = @ + 1],
                            Append(calls, Head(ids)), Tail(ids), Tail(os))

fetch_pending_articles(batch_size, os) ==
    /\ UNCHANGED <<searches, runs, tags, article_tags, executions, url_vars, harness_vars, digest_vars, query_vars>>
    /\ LET selected == SelectByStatus(articles, {"pending"}, batch_size)
       IN  /\ Len(os) = Len(selected)
           /\ LET r == FetchLoop(articles, contents,
                                 [total |-> Len(selected), success |-> 0, failed |-> 0],
                                 <<>>, selected, os)
              IN  /\ articles' = r.articles
                  /\ contents' = r.contents
                  /\ raised' = r.raised

(***************************************************************************)
(* Enrichment engine                                                       *)
(***************************************************************************)

TagX == [name |-> "x", category |-> "topic", confidence |-> 1]
TagY == [name |-> "y", category |-> "stance", confidence |-> 1]

\* the keys enrich_article reads with result[...]
RequiredKeys == {"summary", "key_findings", "relevance_score", "content_type",
                 "word_count"}

\* what call_claude_structured returns: None (absent), or the tool input, which
\* the client hands over unvalidated, so keys of the schema may be missing
LlmResult(absent, keys, summary, key_findings, relevance_score, content_type, word_count, tag_list) ==
    [absent |-> absent, keys |-> keys, summary |-> summary,
     key_findings |-> key_findings, relevance_score |-> relevance_score,
     content_type |-> content_type, word_count |-> word_count, tags |-> tag_list]

Absent == LlmResult(TRUE, {}, NULL, NULL, NONE, NULL, NONE, <<>>)
ResultA == LlmResult(FALSE, RequiredKeys \cup {"tags"}, "s1", "k1", 80, "news", 500,
                     <<TagX, TagX>>)
ResultB == LlmResult(FALSE, RequiredKeys \cup {"tags"}, "s2", "k2", 30, "report", 0,
                     <<TagX, TagY>>)
Incomplete == LlmResult(FALSE, {"summary", "key_findings", "tags"}, "s3", "k3",
                        NONE, NULL, NONE, <<TagY>>)

LlmResults == {Absent, ResultA, ResultB, Incomplete}

\* has_full_text without the test of fetch_status
PromptForAnyText(cs, id) ==
    LET k == ContentIndex(cs, id)
    IN  IF k # 0 /\ cs[k].full_text \notin {NULL, ""}
        THEN "with_content" ELSE "metadata_only"

\* a prompt selection that takes the text of a complete fetch only
PromptForSuccessOnly(cs, id) ==
    LET k == ContentIndex(cs, id)
    IN  IF k # 0 /\ cs[k].fetch_status = "success" /\ cs[k].full_text \notin {NULL, ""}
        THEN "with_content" ELSE "metadata_only"

\* has_full_text: the prompt enrich_article builds
PromptFor(cs, id) ==
    LET k == ContentIndex(cs, id)
    IN  IF /\ k # 0
           /\ cs[k].fetch_status \in {"success", "partial"}
           /\ cs[k].full_text \notin {NULL, ""}
        THEN "with_content" ELSE "metadata_only"

\* db.query(Tag).filter(name == ..., category == ...).first(): row index, 0 if none
TagIndex(ts, name, category) ==
    IF \E k \in 1..Len(ts) : ts[k].name = name /\ ts[k].category = category
    THEN CHOOSE k \in 1..Len(ts) :
            /\ ts[k].name = name /\ ts[k].category = category
            /\ \A j \in 1..(k-1) : ~(ts[j].name = name /\ ts[j].category = category)
    ELSE 0

\* the two columns of the filter exchanged
ExistingLinkSwapped(ats, id, tag_id) ==
    \E k \in 1..Len(ats) : ats[k].article_id = tag_id /\ ats[k].tag_id = id

\* db.query(ArticleTag).filter(article_id == ..., tag_id == ...).first()
ExistingLink(ats, id, tag_id) ==
    \E k \in 1..Len(ats) : ats[k].article_id = id /\ ats[k].tag_id = tag_id

\* the get-or-create loop over result["tags"]: tags and article_tags after it
RECURSIVE MaterializeTags(_, _, _, _)
MaterializeTags(ts, ats, id, tag_list) ==
    IF tag_list = <<>> THEN [tags |-> ts, article_tags |-> ats]
    ELSE LET tag_data == Head(tag_list)
             k == TagIndex(ts, tag_data.name, tag_data.category)
             ts1 == IF k = 0
                    THEN Append(ts, [name |-> tag_data.name,
                                     category |-> tag_data.category])
                    ELSE ts
             tag_id == IF k = 0 THEN Len(ts1) ELSE k
             ats1 == IF ExistingLink(ats, id, tag_id) THEN ats
                     ELSE Append(ats, [article_id |-> id, tag_id |-> tag_id,
                                       confidence |-> tag_data.confidence])
         IN  MaterializeTags(ts1, ats1, id, Tail(tag_list))

\* enrich_article(db, article) on the store: tables after, value returned;
\* raised = a KeyError left the function and nothing of it was committed
EnrichArticle(arts, cs, ts, ats, id, result) ==
    LET prompt == PromptFor(cs, id)
        k == ContentIndex(cs, id)
    IN  IF result.absent \/ result.keys = {}
        THEN [articles |-> [arts EXCEPT ![id].status = "error"],
              tags |-> ts, article_tags |-> ats,
              success |-> FALSE, raised |-> FALSE, prompt |-> prompt]
        ELSE IF ~(RequiredKeys \subseteq result.keys)
        THEN [articles |-> arts, tags |-> ts, article_tags |-> ats,
              success |-> FALSE, raised |-> TRUE, prompt |-> prompt]
        ELSE LET wc == IF prompt = "with_content" /\ cs[k].word_count \notin {NONE, 0}
                       THEN cs[k].word_count
                       ELSE result.word_count
                 m == MaterializeTags(ts, ats, id,
                                      IF "tags" \in result.keys THEN result.tags
                                      ELSE <<>>)
             IN  [articles |-> [arts EXCEPT
                                  ![id].summary = result.summary,
                                  ![id].key_findings = result.key_findings,
                                  ![id].relevance_score = result.relevance_score,
                                  ![id].content_type = result.content_type,
                                  ![id].status = "enriched",
                                  ![id].word_count = wc,
                                  ![id].reading_time_minutes = estimate_reading_time(wc)],
                  tags |-> m.tags, article_tags |-> m.article_tags,
                  success |-> TRUE, raised |-> FALSE, prompt |-> prompt]

\* POST /api/v1/articles/{article_id}/enrich
enrich_article_endpoint(id, result) ==
    /\ UNCHANGED <<searches, runs, contents, executions, url_vars, harness_vars, digest_vars, query_vars>>
    /\ id \in 1..Len(articles)
    /\ LET r == EnrichArticle(articles, contents, tags, article_tags, id, result)
       IN  /\ articles' = r.articles
           /\ tags' = r.tags
           /\ article_tags' = r.article_tags
           /\ raised' = r.raised

\* the loop of enrich_pending_articles over the selected ids; an exception
\* leaves the loop and the function
RECURSIVE EnrichLoop(_, _, _, _, _, _, _, _)
EnrichLoop(arts, cs, ts, ats, stats, calls, ids, results) ==
    IF ids = <<>>
    THEN [articles |-> arts, tags |-> ts, article_tags |-> ats, stats |-> stats,
          calls |-> calls, raised |-> FALSE]
    ELSE LET r == EnrichArticle(arts, cs, ts, ats, Head(ids), Head(results))
             called == Append(calls, [id |-> Head(ids), prompt |-> r.prompt])
         IN  IF r.raised
             THEN [articles |-> arts, tags |-> ts, article_tags |-> ats,
                   stats |-> stats, calls |-> called, raised |-> TRUE]
             ELSE EnrichLoop(r.articles, cs, r.tags, r.article_tags,
                             IF r.success
                             THEN [stats EXCEPT !.success = @ + 1]
                             ELSE [stats EXCEPT !.error = @ + 1],
                             called, Tail(ids), Tail(results))

enrich_pending_articles(batch_size, results) ==
    /\ UNCHANGED <<searches, runs, contents, executions, url_vars, harness_vars, digest_vars, query_vars>>
    /\ LET selected == SelectByStatus(articles, {"fetched", "fetch_failed"}, batch_size)
       IN  /\ Len(results) = Len(selected)
           /\ LET r == EnrichLoop(articles, contents, tags, article_tags,
                                  [total |-> Len(selected), success |-> 0, error |-> 0],
                                  <<>>, selected, results)
              IN  /\ articles' = r.articles
                  /\ tags' = r.tags
                  /\ article_tags' = r.article_tags
                  /\ raised' = r.raised

(***************************************************************************)
(* enrich_pending_articles statement by statement, for invocations that    *)
(* overlap: the scheduler runs run_enrichment on a thread of its           *)
(* BackgroundScheduler, POST /api/v1/pipeline/enrich and POST              *)
(* /admin/enrich-now run it in the web server, each with a session of its  *)
(* own and with no lock, claim or SELECT ... FOR UPDATE                    *)
(***************************************************************************)
Runs == {"scheduler", "api"}

\* an invocation: where it stands (idle, running, returned, raised), the
\* articles its query loaded that the loop has not reached yet, the articles it
\* has called the model for, and its stats
Run(at, selected, calls, stats) ==
    [at |-> at, selected |-> selected, calls |-> calls, stats |-> stats]

NoStats == [total |-> 0, success |-> 0, error |-> 0]

NoRuns == [run \in Runs |-> Run("idle", <<>>, <<>>, NoStats)]

\* a loop that would look at the row again before each call and pass over the
\* articles that have left fetched and fetch_failed since the query
RECURSIVE LoopRestRechecked(_, _)
LoopRestRechecked(arts, selected) ==
    IF selected = <<>> \/ arts[Head(selected)].status \in {"fetched", "fetch_failed"}
    THEN selected
    ELSE LoopRestRechecked(arts, Tail(selected))

\* for article in articles: the loop walks the list its query loaded, whatever
\* has become of the rows since
LoopRest(arts, selected) == selected

\* the query of enrich_pending_articles and the stats it starts with
enrich_start(run, batch_size) ==
    /\ UNCHANGED <<searches, store_vars, url_vars, harness_vars, digest_vars, query_vars>>
    /\ runs[run].at # "running"
    /\ LET selected == SelectByStatus(articles, {"fetched", "fetch_failed"}, batch_size)
       IN  runs' = [runs EXCEPT ![run] =
                       Run(IF selected = <<>> THEN "returned" ELSE "running",
                           selected, <<>>,
                           [total |-> Len(selected), success |-> 0, error |-> 0])]

\* one turn of the loop: enrich_article on the next loaded article, with its
\* commit; the invocation returns its stats after the last one, and an
\* exception leaves it
enrich_step(run, result) ==
    /\ UNCHANGED <<searches, contents, executions, url_vars, harness_vars, digest_vars, query_vars>>
    /\ runs[run].at = "running"
    /\ LET rest == LoopRest(articles, runs[run].selected)
       IN  IF rest = <<>>
           THEN /\ runs' = [runs EXCEPT ![run].at = "returned", ![run].selected = <<>>]
                /\ UNCHANGED <<articles, tags, article_tags, raised>>
           ELSE LET r == EnrichArticle(articles, contents, tags, article_tags,
                                       Head(rest), result)
                    called == Append(runs[run].calls, Head(rest))
                IN  /\ articles' = r.articles
                    /\ tags' = r.tags
                    /\ article_tags' = r.article_tags
                    /\ raised' = r.raised
                    /\ runs' = [runs EXCEPT ![run] =
                           IF r.raised
                           THEN Run("raised", <<>>, called, @.stats)
                           ELSE Run(IF Tail(rest) = <<>> THEN "returned" ELSE "running",
                                    Tail(rest), called,
                                    IF r.success
                                    THEN [@.stats EXCEPT !.success = @ + 1]
                                    ELSE [@.stats EXCEPT !.error = @ + 1])]

(***************************************************************************)
(* run_search_job statement by statement, for invocations that overlap:    *)
(* the scheduler runs run_discovery on a thread of its BackgroundScheduler *)
(* while POST /api/v1/pipeline/discover, POST /admin/discover-now and the  *)
(* run button of a search job run it in the web server, each with a        *)
(* session of its own; articles.url_hash is UNIQUE in the database         *)
(***************************************************************************)

\* an invocation: where it stands (idle, running, scanned, returned, raised),
\* its job, the id of its execution row, the number of candidates it found and
\* the Article rows its session holds and has not committed
SearchRun(at, job, execution, found, pending) ==
    [at |-> at, job |-> job, execution |-> execution, found |-> found,
     pending |-> pending]

NoSearches == [run \in Runs |-> SearchRun("idle", 0, 0, 0, <<>>)]

\* the rows that the candidate loop added to the session
AddedRows(arts, after) == SubSeq(after, Len(arts) + 1, Len(after))

\* the INSERTs of a commit against the UNIQUE index on articles.url_hash: a
\* row whose hash is in the committed table is refused (IntegrityError)
Refused(arts, pending) ==
    \E k \in 1..Len(pending) : ExistingHash(arts, pending[k].url_hash)

\* execution = SearchExecution(...); db.add(execution); db.commit()
search_start(run, job) ==
    /\ UNCHANGED <<runs, articles, contents, tags, article_tags, raised, url_vars, harness_vars, digest_vars, query_vars>>
    /\ searches[run].at \in {"idle", "returned", "raised"}
    /\ Len(executions) < MaxExecutions
    /\ executions' = Append(executions, RunningExecution(job))
    /\ searches' = [searches EXCEPT ![run] =
                       SearchRun("running", job, Len(executions) + 1, 0, <<>>)]

\* search_perplexity, _parse_citations and the candidate loop: each lookup
\* reads the committed table and the rows of its own session; a run whose
\* search returned nothing commits the error and returns
search_scan(run, result) ==
    /\ UNCHANGED <<runs, articles, contents, tags, article_tags, url_vars, harness_vars, digest_vars, query_vars>>
    /\ searches[run].at = "running"
    /\ result.fault = "none"
    /\ IF result.absent
       THEN /\ executions' = [executions EXCEPT ![searches[run].execution] =
                                 FailedExecution(searches[run].job)]
            /\ searches' = [searches EXCEPT ![run].at = "returned"]
            /\ raised' = FALSE
       ELSE LET candidates == ParseCitations(result.citations, {})
                after == AddCandidates(articles, candidates)
            IN  /\ Len(after) <= MaxArticles
                /\ searches' = [searches EXCEPT ![run].at = "scanned",
                                                ![run].found = Len(candidates),
                                                ![run].pending = AddedRows(articles, after)]
                /\ UNCHANGED <<executions, raised>>

\* the db.commit() that ends the try block: when the database refuses a row,
\* the commit raises and the session is left with a rolled-back transaction;
\* the except block sets the status on the object and calls db.commit() with
\* no db.rollback() before it, which raises again on such a session, so the
\* exception leaves run_search_job and the row committed at the start stays
search_commit(run) ==
    /\ UNCHANGED <<runs, contents, tags, article_tags, url_vars, harness_vars, digest_vars, query_vars>>
    /\ searches[run].at = "scanned"
    /\ LET pending == searches[run].pending
       IN  IF Refused(articles, pending)
           THEN /\ searches' = [searches EXCEPT ![run].at = "raised",
                                                ![run].pending = <<>>]
                /\ raised' = TRUE
                /\ UNCHANGED <<articles, executions>>
           ELSE /\ Len(articles) + Len(pending) <= MaxArticles
                /\ articles' = articles \o pending
                /\ executions' = [executions EXCEPT ![searches[run].execution] =
                                     CompletedExecution(searches[run].job,
                                                        searches[run].found,
                                                        Len(pending))]
                /\ searches' = [searches EXCEPT ![run].at = "returned",
                                                ![run].pending = <<>>]
                /\ raised' = FALSE

(***************************************************************************)
(* PATCH /api/v1/articles/{article_id}                                     *)
(***************************************************************************)

\* ArticleUpdate.status is a free str: a client may send a lifecycle state
\* (re-entry to pending) or any other text
StatusInputs == {"pending", "archived"}

update_article(id, status) ==
    /\ UNCHANGED <<searches, runs, contents, tags, article_tags, executions, url_vars, harness_vars, digest_vars, query_vars>>
    /\ raised' = FALSE
    /\ id \in 1..Len(articles)
    /\ articles' = [articles EXCEPT ![id].status = status]

(***************************************************************************)
(* Digests                                                                 *)
(***************************************************************************)

\* the most digests a behaviour generates
MaxDigests == 2

MAX_ARTICLES_PER_DIGEST == 50

\* no generate_digest call is running
Idle == [at |-> "idle", digest |-> 0, period |-> <<0, 0>>]

\* Article.created_at is the time of insertion, which orders the rows as their
\* ids do: a period <<start, end>> is given by the ids whose rows it covers
InPeriod(id, period) == period[1] <= id /\ id <= period[2]

\* an order by age that ignores the relevance
RanksBeforeById(arts, j, i) == j < i

\* ORDER BY relevance_score DESC NULLS LAST, rows of equal score in id order
RanksBefore(arts, j, i) ==
    \/ arts[j].relevance_score > arts[i].relevance_score
    \/ arts[j].relevance_score = arts[i].relevance_score /\ j < i

\* the ids of the first max_articles rows of S in that order
TopRanked(arts, S, max_articles) ==
    {i \in S : Cardinality({j \in S : RanksBefore(arts, j, i)}) < max_articles}

\* _gather_articles: the ids of the enriched articles created in the period
EnrichedIn(arts, period) ==
    {i \in 1..Len(arts) : arts[i].status = "enriched" /\ InPeriod(i, period)}

gather_articles(arts, period, max_articles) ==
    TopRanked(arts, EnrichedIn(arts, period), max_articles)

\* what call_claude_structured returns for a digest: None (absent), or a dict
\* that has the keys title, executive_summary and trend_analysis (complete) or
\* lacks title, with its sections and whether it lists discussion questions and
\* action items; a section has title and narrative (complete) or lacks one, and
\* lists article ids
DigestResult(absent, complete, sections, questions, actions) ==
    [absent |-> absent, complete |-> complete, sections |-> sections,
     questions |-> questions, actions |-> actions]

SectionData(complete, article_ids) ==
    [complete |-> complete, article_ids |-> article_ids, title |-> "theme"]

\* a section with a title of its own
TitledSection(title, article_ids) ==
    [complete |-> TRUE, article_ids |-> article_ids, title |-> title]

\* Digest(title="AI Working Group Briefing", status="generating", ...)
NewDigest(period) ==
    [status |-> "generating", title |-> "AI Working Group Briefing",
     executive_summary |-> NULL, period |-> period, article_count |-> 0,
     full_markdown |-> NULL]

\* DigestSection(digest_id, title, section_type, position)
NewSection(digest_id, title, section_type, position) ==
    [digest_id |-> digest_id, title |-> title, section_type |-> section_type,
     position |-> position]

\* art_id in article_map, as the lookup of every id treats it
InArticleMapUnfiltered(art_id, article_map) == TRUE

\* art_id in article_map
InArticleMap(art_id, article_map) == art_id \in article_map

\* the DigestArticle rows of one section: an id outside article_map is passed
\* over, a row keeps the index of its id in the list of the model
RECURSIVE SectionLinks(_, _, _, _)
SectionLinks(section_id, article_ids, article_map, idx) ==
    IF idx >= Len(article_ids) THEN <<>>
    ELSE (IF InArticleMap(article_ids[idx + 1], article_map)
          THEN <<[section_id |-> section_id, article_id |-> article_ids[idx + 1],
                  position |-> idx]>>
          ELSE <<>>)
         \o SectionLinks(section_id, article_ids, article_map, idx + 1)

\* the loop over result["sections"]: tables after it; raised when a section
\* lacks title or narrative (KeyError), the rows of the sections before it
\* stay in the session
RECURSIVE SectionLoop(_, _, _, _, _, _)
SectionLoop(secs, links, digest_id, article_map, sections, pos) ==
    IF pos >= Len(sections)
    THEN [sections |-> secs, links |-> links, raised |-> FALSE]
    ELSE IF ~sections[pos + 1].complete
         THEN [sections |-> secs, links |-> links, raised |-> TRUE]
         ELSE SectionLoop(Append(secs, NewSection(digest_id, sections[pos + 1].title,
                                                   "theme", pos)),
                          links \o SectionLinks(Len(secs) + 1,
                                                sections[pos + 1].article_ids,
                                                article_map, 0),
                          digest_id, article_map, sections, pos + 1)

\* the two closing sections with the action items put first
ClosingSectionsSwapped(digest_id, result) ==
    (IF result.actions
     THEN <<NewSection(digest_id, "Suggested Action Items", "recommendation",
                       Len(result.sections))>>
     ELSE <<>>)
    \o (IF result.questions
        THEN <<NewSection(digest_id, "Discussion Questions", "recommendation",
                          Len(result.sections) + 1)>>
        ELSE <<>>)

\* the two closing sections, each added when its list is not empty
ClosingSections(digest_id, result) ==
    (IF result.questions
     THEN <<NewSection(digest_id, "Discussion Questions", "recommendation",
                       Len(result.sections))>>
     ELSE <<>>)
    \o (IF result.actions
        THEN <<NewSection(digest_id, "Suggested Action Items", "recommendation",
                          Len(result.sections) + 1)>>
        ELSE <<>>)

\* the digest row left in error without its summary
NoArticlesFoundSilently(digest) == [digest EXCEPT !.status = "error"]

\* if not articles: the digest row of lines 229-230
NoArticlesFound(digest) ==
    [digest EXCEPT !.status = "error",
                   !.executive_summary = "No enriched articles found for this period."]

\* lines 225-321 of generate_digest with the except block for what raises in
\* them: the digest row, the tables, whether the model was called and whether
\* the call goes on to render the digest
Synthesized(digest, secs, links, digest_id, article_map, result, loop) ==
    CASE article_map = {} ->
            [digest |-> NoArticlesFound(digest),
             sections |-> secs, links |-> links, called |-> FALSE, render |-> FALSE]
      [] article_map # {} /\ result.absent ->
            [digest |-> [digest EXCEPT
                           !.status = "error",
                           !.article_count = Cardinality(article_map),
                           !.executive_summary = "AI synthesis failed."],
             sections |-> secs, links |-> links, called |-> TRUE, render |-> FALSE]
      [] article_map # {} /\ ~result.absent /\ ~result.complete ->
            [digest |-> [digest EXCEPT
                           !.status = "error",
                           !.article_count = Cardinality(article_map)],
             sections |-> secs, links |-> links, called |-> TRUE, render |-> FALSE]
      [] OTHER ->
            [digest |-> [digest EXCEPT
                           !.status = IF loop.raised THEN "error" ELSE "completed",
                           !.title = "result.title",
                           !.executive_summary = "result.executive_summary",
                           !.article_count = Cardinality(article_map)],
             sections |-> IF loop.raised THEN loop.sections
                          ELSE loop.sections \o ClosingSections(digest_id, result),
             links |-> loop.links, called |-> TRUE, render |-> ~loop.raised]

Synthesize(arts, ds, secs, links, pc, result) ==
    Synthesized(ds[pc.digest], secs, links, pc.digest,
                gather_articles(arts, pc.period, MAX_ARTICLES_PER_DIGEST), result,
                SectionLoop(secs, links, pc.digest,
                            gather_articles(arts, pc.period, MAX_ARTICLES_PER_DIGEST),
                            result.sections, 0))

\* generate_digest, lines 215-223: the digest row is committed as generating
GenerateStart(period) ==
    /\ digest_pc.at = "idle"
    /\ Len(digests) < MaxDigests
    /\ digests' = Append(digests, NewDigest(period))
    /\ digest_pc' = [at |-> "synthesize", digest |-> Len(digests) + 1,
                     period |-> period]
    /\ raised' = FALSE
    /\ UNCHANGED <<searches, runs, articles, contents, tags, article_tags, executions,
                   digest_sections, digest_articles, url_vars, harness_vars, query_vars>>

\* generate_digest, lines 225-321: gather, call the model, store its sections,
\* commit
GenerateSynthesize(result) ==
    /\ digest_pc.at = "synthesize"
    /\ LET r == Synthesize(articles, digests, digest_sections, digest_articles,
                           digest_pc, result)
       IN  /\ digests' = [digests EXCEPT ![digest_pc.digest] = r.digest]
           /\ digest_sections' = r.sections
           /\ digest_articles' = r.links
           /\ digest_pc' = IF r.render THEN [digest_pc EXCEPT !.at = "render"]
                           ELSE Idle
    /\ raised' = FALSE
    /\ UNCHANGED <<searches, runs, articles, contents, tags, article_tags, executions,
                   url_vars, harness_vars, query_vars>>

\* generate_digest, lines 323-335: refresh, render, commit; when one of the
\* three raises the except block sets the status and commits
GenerateRender(fails) ==
    /\ digest_pc.at = "render"
    /\ digests' = [digests EXCEPT ![digest_pc.digest] =
                      IF fails THEN [@ EXCEPT !.status = "error"]
                      ELSE [@ EXCEPT !.full_markdown = "rendered"]]
    /\ digest_pc' = Idle
    /\ raised' = FALSE
    /\ UNCHANGED <<searches, runs, articles, contents, tags, article_tags, executions,
                   digest_sections, digest_articles, url_vars, harness_vars, query_vars>>

(***************************************************************************)
(* Interrogation                                                           *)
(***************************************************************************)

\* the most queries a behaviour processes
MaxQueries == 2

\* what _phase1_plan returns: None (absent), or a plan with the rowids the
\* full-text index matches for its search terms (hits), its tag and content
\* type filters, sort_by, time_budget_minutes (NONE when the key is missing or
\* null) and max_articles
QueryPlan(absent, hits, tag_filters, content_types, sort_by, time_budget, max_articles) ==
    [absent |-> absent, hits |-> hits, tag_filters |-> tag_filters,
     content_types |-> content_types, sort_by |-> sort_by,
     time_budget |-> time_budget, max_articles |-> max_articles]

NoPlan == QueryPlan(TRUE, {}, {}, {}, "relevance", NONE, 10)

\* candidate ids that always take the enriched articles in
CandidateIdsWithEnriched(arts, plan) ==
    plan.hits \cup TopRanked(arts, {i \in 1..Len(arts) : arts[i].status = "enriched"}, 50)

\* the candidate ids: the full-text hits, or every enriched article (the 50 most
\* relevant) when there is no hit
CandidateIds(arts, plan) ==
    IF plan.hits # {} THEN plan.hits
    ELSE TopRanked(arts, {i \in 1..Len(arts) : arts[i].status = "enriched"}, 50)

\* join(ArticleTag).join(Tag).filter(Tag.name.in_(tag_filters))
HasTagIn(ts, ats, id, tag_filters) ==
    \E k \in 1..Len(ats) : ats[k].article_id = id /\ ts[ats[k].tag_id].name \in tag_filters

\* the rows of the query: candidates that exist and pass the filters
Matching(arts, ts, ats, plan) ==
    {i \in CandidateIds(arts, plan) \cap 1..Len(arts) :
        /\ plan.tag_filters # {} => HasTagIn(ts, ats, i, plan.tag_filters)
        /\ plan.content_types # {} => arts[i].content_type \in plan.content_types}

\* x or d for a numeric column
OrDefault(x, d) == IF x = NONE \/ x = 0 THEN d ELSE x

\* a comes before b after unique.sort(...): the sort is stable on rows in id order
SortsBefore(arts, sort_by, a, b) ==
    CASE sort_by = "relevance" ->
            \/ OrDefault(arts[a].relevance_score, 0) > OrDefault(arts[b].relevance_score, 0)
            \/ /\ OrDefault(arts[a].relevance_score, 0) = OrDefault(arts[b].relevance_score, 0)
               /\ a < b
      [] sort_by = "reading_time" ->
            \/ OrDefault(arts[a].reading_time_minutes, 0)
                   < OrDefault(arts[b].reading_time_minutes, 0)
            \/ /\ OrDefault(arts[a].reading_time_minutes, 0)
                      = OrDefault(arts[b].reading_time_minutes, 0)
               /\ a < b
      [] OTHER -> a < b

\* the ids of S as the sorted list
RECURSIVE Sorted(_, _, _)
Sorted(arts, sort_by, S) ==
    IF S = {} THEN <<>>
    ELSE LET first == CHOOSE a \in S : \A b \in S \ {a} : SortsBefore(arts, sort_by, a, b)
         IN  <<first>> \o Sorted(arts, sort_by, S \ {first})

\* the loop under "Apply time budget"
RECURSIVE WithinBudget(_, _, _, _)
WithinBudget(arts, ids, time_budget, total_time) ==
    IF ids = <<>> THEN <<>>
    ELSE IF total_time + OrDefault(arts[Head(ids)].reading_time_minutes, 5) <= time_budget
         THEN <<Head(ids)>>
              \o WithinBudget(arts, Tail(ids), time_budget,
                              total_time + OrDefault(arts[Head(ids)].reading_time_minutes, 5))
         ELSE WithinBudget(arts, Tail(ids), time_budget, total_time)

\* if time_budget: a missing budget and the budget 0 are both falsy
BudgetSupplied(time_budget) == time_budget # NONE /\ time_budget # 0

\* unique[:max_articles]
Slice(ids, max_articles) ==
    IF max_articles >= 0 THEN SubSeq(ids, 1, IF max_articles < Len(ids) THEN max_articles ELSE Len(ids))
    ELSE SubSeq(ids, 1, IF Len(ids) + max_articles > 0 THEN Len(ids) + max_articles ELSE 0)

Budgeted(arts, plan, unique) ==
    Slice(IF BudgetSupplied(plan.time_budget)
          THEN WithinBudget(arts, unique, plan.time_budget, 0)
          ELSE unique,
          plan.max_articles)

\* _execute_search(db, plan): the ids of the articles it returns, in order
execute_search(arts, ts, ats, plan) ==
    Budgeted(arts, plan, Sorted(arts, plan.sort_by, Matching(arts, ts, ats, plan)))

\* what _phase2_synthesize returns: None (absent), or a dict that has title and
\* description (complete) or lacks title, with its sections
Synthesis(absent, complete, sections) ==
    [absent |-> absent, complete |-> complete, sections |-> sections]

\* the log row without the failure reason
FallbackLogWithoutReason(query, error) ==
    [query |-> query, result |-> NULL, query_plan |-> FALSE, reading_list_id |-> NONE]

\* InterrogationLog(query, result={"error": error})
FallbackLog(query, error) ==
    [query |-> query, result |-> error, query_plan |-> FALSE, reading_list_id |-> NONE]

\* the dict _fallback_result returns
FallbackResult(error) ==
    [title |-> "Query could not be processed", description |-> error,
     sections |-> <<>>, discussion_prompts |-> <<>>, total_reading_time |-> 0,
     reading_list_id |-> NONE]

\* _fallback_result(db, query, user_id, error): the tables after it and what it
\* returns
Fallback(lists, items, logs, query, error) ==
    [lists |-> lists, items |-> items, logs |-> Append(logs, FallbackLog(query, error)),
     raised |-> FALSE, response |-> FallbackResult(error)]

\* the dict process_query returns for a stored reading list: the sections of
\* the synthesis and what it carries along, here one prompt and a total of 12
ReadingListResult(synthesis, list_id) ==
    [title |-> "synthesis.title", description |-> "synthesis.description",
     sections |-> synthesis.sections, discussion_prompts |-> <<"prompt">>,
     total_reading_time |-> 12, reading_list_id |-> list_id]

\* no dict is returned: an exception left the handler
NoResponse ==
    [title |-> NULL, description |-> NULL, sections |-> <<>>,
     discussion_prompts |-> <<>>, total_reading_time |-> NONE, reading_list_id |-> NONE]

\* article_id in article_map, as a lookup that finds every id
InCandidatesUnfiltered(article_id, article_map) == TRUE

\* if article_id in article_map
InCandidates(article_id, article_map) == article_id \in article_map

\* the ReadingListItem rows of one section; raised when a listed id is in
\* article_map and the section has no title (KeyError)
RECURSIVE SectionItems(_, _, _, _)
SectionItems(list_id, section, article_map, i) ==
    IF i >= Len(section.article_ids) THEN [items |-> <<>>, raised |-> FALSE]
    ELSE IF InCandidates(section.article_ids[i + 1], article_map)
         THEN IF ~section.complete THEN [items |-> <<>>, raised |-> TRUE]
              ELSE LET rest == SectionItems(list_id, section, article_map, i + 1)
                   IN  [items |-> <<[reading_list_id |-> list_id,
                                     article_id |-> section.article_ids[i + 1],
                                     position |-> i]>> \o rest.items,
                        raised |-> rest.raised]
         ELSE SectionItems(list_id, section, article_map, i + 1)

\* the loop over synthesis["sections"]
RECURSIVE ListItems(_, _, _)
ListItems(list_id, sections, article_map) ==
    IF sections = <<>> THEN [items |-> <<>>, raised |-> FALSE]
    ELSE LET head == SectionItems(list_id, Head(sections), article_map, 0)
             rest == ListItems(list_id, Tail(sections), article_map)
         IN  [items |-> head.items \o rest.items,
              raised |-> head.raised \/ rest.raised]

\* a phase that returns nothing is taken for a success
PhaseFailedIgnored(value_absent) == FALSE

\* if not plan / if not articles / if not synthesis
PhaseFailed(value_absent) == value_absent

\* process_query from its three phases: the tables after it; raised when an
\* exception left it, and then nothing of the session was committed
Processed(lists, items, logs, query, plan, found, synthesis, listed) ==
    CASE PhaseFailed(plan.absent) ->
            Fallback(lists, items, logs, query, "Could not parse query")
      [] ~PhaseFailed(plan.absent) /\ PhaseFailed(found = <<>>) ->
            Fallback(lists, items, logs, query, "No matching articles found")
      [] ~PhaseFailed(plan.absent) /\ ~PhaseFailed(found = <<>>)
             /\ PhaseFailed(synthesis.absent) ->
            Fallback(lists, items, logs, query, "Could not generate reading list")
      [] OTHER ->
            IF ~synthesis.complete \/ listed.raised
            THEN [lists |-> lists, items |-> items, logs |-> logs, raised |-> TRUE,
                  response |-> NoResponse]
            ELSE [lists |-> Append(lists, [title |-> "synthesis.title"]),
                  items |-> items \o listed.items,
                  logs |-> Append(logs, [query |-> query, result |-> "synthesis",
                                         query_plan |-> TRUE,
                                         reading_list_id |-> Len(lists) + 1]),
                  raised |-> FALSE,
                  response |-> ReadingListResult(synthesis, Len(lists) + 1)]

Range(seq) == {seq[k] : k \in 1..Len(seq)}

ProcessQuery(lists, items, logs, query, plan, found, synthesis) ==
    Processed(lists, items, logs, query, plan, found, synthesis,
              ListItems(Len(lists) + 1, synthesis.sections, Range(found)))

\* POST /interrogation/query
process_query(query, plan, synthesis) ==
    /\ Len(interrogation_log) < MaxQueries
    /\ retrieved' = [plan |-> plan,
                     articles |-> IF plan.absent THEN <<>>
                                  ELSE execute_search(articles, tags, article_tags, plan)]
    /\ LET r == ProcessQuery(reading_lists, reading_list_items, interrogation_log,
                             query, plan, retrieved'.articles, synthesis)
       IN  /\ reading_lists' = r.lists
           /\ reading_list_items' = r.items
           /\ interrogation_log' = r.logs
           /\ raised' = r.raised
    /\ UNCHANGED <<searches, runs, articles, contents, tags, article_tags, executions,
                   url_vars, harness_vars, digest_vars>>

(***************************************************************************)
(* Specifications                                                          *)
(***************************************************************************)

InitStore ==
    /\ articles = <<>>
    /\ contents = <<>>
    /\ tags = <<>>
    /\ article_tags = <<>>
    /\ executions = <<>>
    /\ raised = FALSE

\* no digest, no reading list, no query yet
InitCuration ==
    /\ digests = <<>>
    /\ digest_sections = <<>>
    /\ digest_articles = <<>>
    /\ digest_pc = Idle
    /\ reading_lists = <<>>
    /\ reading_list_items = <<>>
    /\ interrogation_log = <<>>
    /\ retrieved = [plan |-> NoPlan, articles |-> <<>>]

Init ==
    /\ InitStore
    /\ InitCuration
    /\ words_in = 0
    /\ minutes_out = <<>>
    /\ client_status = NONE
    /\ runs = NoRuns
    /\ searches = NoSearches
    /\ url_in = <<>>
    /\ url_var = <<>>
    /\ url_out = <<>>
    /\ url_pc = "idle"

\* sequences of length n over S
Tuples(S, n) == [1..n -> S]

Create ==
    \E url \in PoolUrls, authors \in AuthorInputs :
        create_article(url, authors) \/ add_article(url, authors)

\* the fetch outcomes and model responses the lifecycle is driven with
LifecycleOutcomes == {NotFound, FullText}
LifecycleResults == {Absent, ResultA, Incomplete}

CreatePending ==
    \E url \in PipelineUrls : create_article(url, <<>>) \/ add_article(url, <<>>)

FetchOne ==
    \E id \in 1..MaxArticles, o \in LifecycleOutcomes : fetch_article(id, o)

FetchBatch ==
    \E batch_size \in BatchSizes, n \in 0..Len(articles) :
        \E os \in Tuples(LifecycleOutcomes, n) : fetch_pending_articles(batch_size, os)

EnrichOne ==
    \E id \in 1..MaxArticles, result \in LifecycleResults :
        enrich_article_endpoint(id, result)

EnrichBatch ==
    \E batch_size \in BatchSizes, n \in 0..Len(articles) :
        \E results \in Tuples(LifecycleResults, n) :
            enrich_pending_articles(batch_size, results)

Update == \E id \in 1..MaxArticles, status \in StatusInputs : update_article(id, status)

\* the article pipeline: manual entry, fetch, enrich, update
Next == CreatePending \/ FetchOne \/ FetchBatch \/ EnrichOne \/ EnrichBatch \/ Update

Spec == Init /\ [][Next]_vars

TagFetchBatch ==
    \E batch_size \in BatchSizes, n \in 0..Len(articles) :
        \E os \in Tuples({NotFound}, n) : fetch_pending_articles(batch_size, os)

TagEnrichOne ==
    \E id \in 1..MaxArticles, result \in LlmResults : enrich_article_endpoint(id, result)

TagEnrichBatch ==
    \E batch_size \in BatchSizes, n \in 0..Len(articles) :
        \E results \in Tuples(LlmResults, n) :
            enrich_pending_articles(batch_size, results)

\* tag materialisation: every model response, on articles that are re-enriched
NextTags == CreatePending \/ TagFetchBatch \/ TagEnrichOne \/ TagEnrichBatch

SpecTags == Init /\ [][NextTags]_vars

RunOne == \E job \in 1..Len(EnabledJobs), result \in SearchResults :
              run_search_job(EnabledJobs[job], result)

RunAll == \E results \in Tuples(SearchResults, Len(EnabledJobs)) :
              run_all_search_jobs(results)

\* discovery and manual entry
NextDiscovery == RunOne \/ RunAll \/ Create

SpecDiscovery == Init /\ [][NextDiscovery]_vars

\* fetch outcomes and search results with a failing session among them
FaultyOutcomes == {NotFound, FullText, DbError}
FaultyResults == {NoResult, TrackedThenPlain,
                  SearchResult(FALSE, <<PoolB>>, "start"),
                  SearchResult(FALSE, <<PoolB>>, "record")}

FaultyFetchBatch ==
    \E batch_size \in BatchSizes, n \in 0..Len(articles) :
        \E os \in Tuples(FaultyOutcomes, n) : fetch_pending_articles(batch_size, os)

FaultyRunOne == \E job \in 1..Len(EnabledJobs), result \in FaultyResults :
                    run_search_job(EnabledJobs[job], result)

FaultyRunAll == \E results \in Tuples(FaultyResults, Len(EnabledJobs)) :
                    run_all_search_jobs(results)

\* the batches of the scheduler while the database may fail
NextFaults == CreatePending \/ FaultyFetchBatch \/ FaultyRunOne \/ FaultyRunAll

SpecFaults == Init /\ [][NextFaults]_vars

\* the articles the single-item endpoints are driven on
MaxSingle == 1

\* every fetch outcome, a failing session among them
SingleOutcomes == FetchOutcomes \cup {DbError}

SingleCreate == Len(articles) < MaxSingle /\ CreatePending

SingleFetch ==
    \E id \in 1..MaxSingle, o \in SingleOutcomes : fetch_article(id, o)

SingleEnrich ==
    \E id \in 1..MaxSingle, result \in LlmResults : enrich_article_endpoint(id, result)

SingleBatch ==
    \E batch_size \in BatchSizes, n \in 0..Len(articles) :
        \E os \in Tuples(SingleOutcomes, n) : fetch_pending_articles(batch_size, os)

\* the fetcher and the single-item endpoints under every fetch outcome and
\* model response
NextSingle == SingleCreate \/ SingleFetch \/ SingleBatch \/ SingleEnrich

SpecSingle == Init /\ [][NextSingle]_vars

\* the articles overlapping invocations are driven on
MaxOverlap == 2

OverlapCreate == Len(articles) < MaxOverlap /\ CreatePending

OverlapStart == \E run \in Runs, batch_size \in BatchSizes : enrich_start(run, batch_size)

OverlapStep == \E run \in Runs, result \in LlmResults : enrich_step(run, result)

\* two invocations of enrich_pending_articles interleaved turn by turn
NextOverlap == OverlapCreate \/ TagFetchBatch \/ OverlapStart \/ OverlapStep

SpecOverlap == Init /\ [][NextOverlap]_vars

\* the periods digests are asked for: every article, and the second one only
Periods == {<<1, MaxArticles>>, <<2, 2>>}

AbsentDigest == DigestResult(TRUE, FALSE, <<>>, FALSE, FALSE)
\* one section that lists the two oldest articles
PlainDigest == DigestResult(FALSE, TRUE, <<SectionData(TRUE, <<1, 2>>)>>, TRUE, FALSE)
\* two sections, the first beginning with the id of no article
StrayDigest ==
    DigestResult(FALSE, TRUE,
                 <<SectionData(TRUE, <<MaxArticles + 1, 2>>), SectionData(TRUE, <<1>>)>>,
                 TRUE, TRUE)
\* a second section without narrative
BrokenDigest ==
    DigestResult(FALSE, TRUE,
                 <<SectionData(TRUE, <<2, 1>>), SectionData(FALSE, <<>>)>>,
                 FALSE, TRUE)

\* two titled sections, titles in descending order, and action items without
\* questions
TitledDigest ==
    DigestResult(FALSE, TRUE,
                 <<TitledSection("risks", <<1>>), TitledSection("adoption", <<2>>)>>,
                 FALSE, TRUE)

DigestResults == {AbsentDigest, DigestResult(FALSE, FALSE, <<>>, FALSE, FALSE),
                  PlainDigest, StrayDigest, BrokenDigest, TitledDigest}

DigestEnrich ==
    \E id \in 1..MaxArticles, result \in {Absent, ResultA} :
        enrich_article_endpoint(id, result)

StartDigest == \E period \in Periods : GenerateStart(period)

SynthesizeDigest == \E result \in DigestResults : GenerateSynthesize(result)

RenderDigest == \E fails \in BOOLEAN : GenerateRender(fails)

\* digests generated while articles are created and enriched
NextDigest == CreatePending \/ DigestEnrich \/ StartDigest \/ SynthesizeDigest
                  \/ RenderDigest

SpecDigest == Init /\ [][NextDigest]_vars

\* three articles of different dedup keys, created in this order
GatherUrls == <<PoolA, PoolC, PoolUpper>>

GatherCreate ==
    /\ Len(articles) < Len(GatherUrls)
    /\ create_article(GatherUrls[Len(articles) + 1], <<>>)

GatherEnrich ==
    \E id \in 1..MaxArticles, result \in {ResultA, ResultB} :
        enrich_article_endpoint(id, result)

\* PATCH with status enriched: an enriched article without relevance score
GatherUpdate == \E id \in 1..MaxArticles : update_article(id, "enriched")

GatherSynthesize == GenerateSynthesize(PlainDigest)

GatherRender == GenerateRender(FALSE)

\* digests over articles of different relevance, some without a score
NextGather == GatherCreate \/ GatherEnrich \/ GatherUpdate \/ StartDigest
                  \/ GatherSynthesize \/ GatherRender

SpecGather == Init /\ [][NextGather]_vars

\* the plans queries are parsed into
QueryPlans ==
    {NoPlan,
     QueryPlan(FALSE, {}, {}, {}, "relevance", NONE, 10),
     QueryPlan(FALSE, {1, 2}, {}, {}, "reading_time", 3, 10),
     QueryPlan(FALSE, {1, 2}, {}, {}, "relevance", 0, 10),
     QueryPlan(FALSE, {1, 2, MaxArticles + 1}, {"x"}, {"news"}, "date", 6, 1)}

AbsentSynthesis == Synthesis(TRUE, FALSE, <<>>)

Syntheses ==
    {AbsentSynthesis,
     Synthesis(FALSE, FALSE, <<>>),
     Synthesis(FALSE, TRUE, <<SectionData(TRUE, <<1, 2>>)>>),
     Synthesis(FALSE, TRUE, <<SectionData(TRUE, <<MaxArticles + 1, 1>>),
                              SectionData(FALSE, <<2>>)>>)}

QueryEnrich ==
    \E id \in 1..MaxArticles, result \in {ResultA, ResultB} :
        enrich_article_endpoint(id, result)

\* the free-text queries of the model
Queries == {"ai policy", "exam rules"}

Query == \E plan \in QueryPlans, synthesis \in Syntheses :
             process_query("ai policy", plan, synthesis)

\* queries processed while articles are created and enriched
NextQuery == CreatePending \/ QueryEnrich \/ Query

SpecQuery == Init /\ [][NextQuery]_vars

\* the plans and syntheses of queries that fall back or succeed on the most
\* relevant enriched articles
FallbackPlans == {NoPlan, QueryPlan(FALSE, {}, {}, {}, "relevance", NONE, 10)}
FallbackSyntheses == {AbsentSynthesis,
                      Synthesis(FALSE, TRUE, <<SectionData(TRUE, <<1, 2>>)>>)}

FallbackEnrich == \E id \in 1..MaxArticles : enrich_article_endpoint(id, ResultA)

FallbackQuery ==
    \E query \in Queries, plan \in FallbackPlans, synthesis \in FallbackSyntheses :
        process_query(query, plan, synthesis)

\* queries of which every phase may fail
NextFallback == CreatePending \/ FallbackEnrich \/ FallbackQuery

SpecFallback == Init /\ [][NextFallback]_vars

\* plans for retrieval: a budget that the most relevant article exceeds, the
\* fallback with a tag filter, hits with a content-type filter, a cut to one
\* article, a cut to none, and the plain fallback
SearchPlans ==
    {QueryPlan(FALSE, {1, 2}, {}, {}, "relevance", 1, 10),
     QueryPlan(FALSE, {}, {"x"}, {}, "relevance", NONE, 10),
     QueryPlan(FALSE, {2, MaxArticles + 1}, {}, {"report"}, "relevance", NONE, 10),
     QueryPlan(FALSE, {1, 2}, {}, {}, "reading_time", NONE, 1),
     QueryPlan(FALSE, {1, 2}, {}, {}, "relevance", NONE, 0),
     QueryPlan(FALSE, {}, {}, {}, "relevance", NONE, 10)}

SearchQuery ==
    \E plan \in SearchPlans, synthesis \in FallbackSyntheses :
        process_query("exam rules", plan, synthesis)

\* retrieval over articles that differ in relevance, reading time, content
\* type and tags
NextSearch == CreatePending \/ QueryEnrich \/ SearchQuery

SpecSearch == Init /\ [][NextSearch]_vars

\* the structured responses the model gives for an article: for the oldest
\* article it keeps leaving relevance_score out, for the others it answers in
\* full or not at all
ResponsesFor(id) == IF id = 1 THEN {Incomplete} ELSE {Absent, ResultA, ResultB}

\* run_fetching: the batch of the interval job, with requests that are answered
ScheduledFetch ==
    \E batch_size \in BatchSizes, n \in 0..Len(articles) :
        \E os \in Tuples(LifecycleOutcomes, n) : fetch_pending_articles(batch_size, os)

\* run_enrichment: the batch of the interval job; the exception of a batch is
\* logged by the job and the next interval starts a new batch
ScheduledEnrich ==
    \E batch_size \in BatchSizes :
        LET selected == SelectByStatus(articles, {"fetched", "fetch_failed"}, batch_size)
        IN  \E results \in Tuples(LlmResults, Len(selected)) :
                /\ \A k \in 1..Len(selected) : results[k] \in ResponsesFor(selected[k])
                /\ enrich_pending_articles(batch_size, results)

ScheduledCreate == \E url \in PipelineUrls \cup {PoolUpper} : create_article(url, <<>>)

NextScheduled == ScheduledCreate \/ ScheduledFetch \/ ScheduledEnrich

\* the interval jobs keep running: each batch is started again and again
SpecScheduled ==
    Init /\ [][NextScheduled]_vars /\ WF_vars(ScheduledFetch) /\ WF_vars(ScheduledEnrich)

\* what the searches of two overlapping runs return: nothing, one new URL, or
\* that URL and a second one
RaceResults == {NoResult,
                SearchResult(FALSE, <<PoolA>>, "none"),
                SearchResult(FALSE, <<PoolA, PoolC>>, "none"),
                SearchResult(FALSE, <<PoolUpper>>, "none")}

RaceStart == \E run \in Runs : \E job \in {EnabledJobs[k] : k \in 1..Len(EnabledJobs)} :
                 search_start(run, job)

RaceScan == \E run \in Runs : \E result \in RaceResults : search_scan(run, result)

RaceCommit == \E run \in Runs : search_commit(run)

NextRace == RaceStart \/ RaceScan \/ RaceCommit

\* discovery runs of the scheduler and of the web server, interleaved
SpecRace == Init /\ [][NextRace]_vars

\* the word counts estimates are asked for, and how far a second call lies
\* above the first
BelowZero == 5
MaxWords == 800
MaxStep == 3

InitReading ==
    /\ InitStore
    /\ InitCuration
    /\ url_in = <<>>
    /\ url_var = <<>>
    /\ url_out = <<>>
    /\ url_pc = "idle"
    /\ words_in \in (0 - BelowZero)..MaxWords
    /\ minutes_out = <<>>
    /\ client_status = NONE
    /\ runs = NoRuns
    /\ searches = NoSearches

\* estimate_reading_time(w)
EstimateOnce ==
    /\ minutes_out = <<>>
    /\ minutes_out' = <<[words |-> words_in,
                         minutes |-> estimate_reading_time(words_in)]>>
    /\ UNCHANGED <<searches, runs, store_vars, url_vars, digest_vars, query_vars, words_in, client_status>>

\* estimate_reading_time(w + d)
EstimateLarger ==
    /\ Len(minutes_out) = 1
    /\ \E d \in 1..MaxStep :
          minutes_out' = Append(minutes_out,
                                [words |-> words_in + d,
                                 minutes |-> estimate_reading_time(words_in + d)])
    /\ UNCHANGED <<searches, runs, store_vars, url_vars, digest_vars, query_vars, words_in, client_status>>

NextReading == EstimateOnce \/ EstimateLarger

SpecReading == InitReading /\ [][NextReading]_vars

\* the URLs a test client posts: three keys, two of them shared by two URLs
\* (a tracked variant; a www. host with a trailing slash)
ClientUrls == {PoolA, PoolATracked, PoolB, PoolC, PoolUpper}

\* client.post("/api/v1/articles", json=...): the handler runs and the client
\* holds the status code of the answer
post_api(url, authors) ==
    /\ LET r == CreateArticle(articles, url, url_hash(url), authors)
       IN  /\ Len(r.articles) <= MaxArticles
           /\ articles' = r.articles
           /\ client_status' = r.status_code
    /\ raised' = FALSE
    /\ UNCHANGED <<searches, runs, contents, tags, article_tags, executions, url_vars,
                   digest_vars, query_vars, words_in, minutes_out>>

\* authed_client.post("/articles/add", data=...)
post_form(url, authors) ==
    /\ LET r == AddArticle(articles, url, url_hash(url), authors)
       IN  /\ Len(r.articles) <= MaxArticles
           /\ articles' = r.articles
           /\ client_status' = r.status_code
    /\ raised' = FALSE
    /\ UNCHANGED <<searches, runs, contents, tags, article_tags, executions, url_vars,
                   digest_vars, query_vars, words_in, minutes_out>>

PostApi == \E url \in ClientUrls, authors \in AuthorInputs : post_api(url, authors)

PostForm == \E url \in ClientUrls, authors \in AuthorInputs : post_form(url, authors)

\* a client that creates articles through both endpoints
NextClient == PostApi \/ PostForm

SpecClient == Init /\ [][NextClient]_vars

InitUrl ==
    /\ InitStore
    /\ InitCuration
    /\ words_in = 0
    /\ minutes_out = <<>>
    /\ client_status = NONE
    /\ runs = NoRuns
    /\ searches = NoSearches
    /\ url_in \in Urls
    /\ url_var = <<>>
    /\ url_out = <<>>
    /\ url_pc = "start"

\* normalize_url(u)
NormalizeOnce ==
    /\ url_pc = "start"
    /\ url_out' = <<normalize_url(url_in)>>
    /\ url_pc' = "once"
    /\ UNCHANGED <<searches, runs, store_vars, harness_vars, digest_vars, query_vars, url_in, url_var>>

\* normalize_url(normalize_url(u))
NormalizeTwice ==
    /\ url_pc = "once"
    /\ url_out' = Append(url_out, normalize_url(url_out[1]))
    /\ url_pc' = "twice"
    /\ UNCHANGED <<searches, runs, store_vars, harness_vars, digest_vars, query_vars, url_in, url_var>>

\* url_hash of u and of one of its variants
HashVariant ==
    /\ url_pc = "start"
    /\ \E k \in VariantKinds :
          /\ HasVariant(k, url_in)
          /\ url_var' = Variant(k, url_in)
          /\ url_out' = <<url_hash(url_in), url_hash(url_var')>>
    /\ url_pc' = "variant"
    /\ UNCHANGED <<searches, runs, store_vars, harness_vars, digest_vars, query_vars, url_in>>

\* url_hash of u and of u with another path
HashOtherPath ==
    /\ url_pc = "start"
    /\ \E path \in UrlPaths :
          /\ path # urlparse(url_in).path
          /\ url_var' = ReplacePath(url_in, urlparse(url_in), path)
          /\ url_out' = <<url_hash(url_in), url_hash(url_var')>>
    /\ url_pc' = "other_path"
    /\ UNCHANGED <<searches, runs, store_vars, harness_vars, digest_vars, query_vars, url_in>>

NextUrl == NormalizeOnce \/ NormalizeTwice \/ HashVariant \/ HashOtherPath

SpecUrl == InitUrl /\ [][NextUrl]_vars

(***************************************************************************)
(* Properties                                                              *)
(***************************************************************************)

\* C1: after any sequence of search-job runs and manual creations, no two
\* rows of articles carry the same url_hash
UniqueUrlHash ==
    \A i, j \in 1..Len(articles) :
        i # j => articles[i].url_hash # articles[j].url_hash

\* a run has met a candidate whose key already existed, and two articles are stored
DedupHitSeen ==
    /\ Len(articles) = 2
    /\ \E e \in 1..Len(executions) :
          /\ executions[e].status = "completed"
          /\ executions[e].articles_new < executions[e].articles_found

\* C2: normalize_url(normalize_url(u)) = normalize_url(u) for every URL u
NormalizeIdempotent == url_pc = "twice" => url_out[2] = url_out[1]

\* C3: a URL and its variant that differs only by a leading "www.", a tracking
\* parameter, a trailing slash or a fragment have the same dedup key
VariantsShareKey == url_pc = "variant" => url_out[1] = url_out[2]

\* C4 as stated: two URLs on the same host whose paths differ have different
\* dedup keys
DifferentPathsDifferentKeys == url_pc = "other_path" => url_out[1] # url_out[2]

\* path without its trailing slashes
TrimSlashes(path) ==
    LET n == CHOOSE k \in 0..Len(path) :
                /\ k = 0 \/ path[k] # "/"
                /\ \A j \in (k+1)..Len(path) : path[j] = "/"
    IN  Take(path, n)

PathsDifferBeyondSlashes ==
    TrimSlashes(urlparse(url_in).path) # TrimSlashes(urlparse(url_var).path)

\* C4 amended: two URLs on the same host whose paths differ in more than
\* trailing slashes have different dedup keys
DistinctPathsDifferentKeys ==
    (url_pc = "other_path" /\ PathsDifferBeyondSlashes) => url_out[1] # url_out[2]

\* two URLs of one host with the paths /a and /b have been hashed
DistinctPathsHashed ==
    /\ url_pc = "other_path"
    /\ urlparse(url_in).hostname = <<"x", ".", "com">>
    /\ urlparse(url_var).hostname = <<"x", ".", "com">>
    /\ urlparse(url_in).path = <<"/", "a">>
    /\ urlparse(url_var).path = <<"/", "b">>

\* C5: the status of every article is one of the five lifecycle states
StatusInEnumeration ==
    \A i \in 1..Len(articles) : articles[i].status \in ArticleStatuses

\* a step of a fetch or enrich operation, single-item or batch
PipelineStep == FetchOne \/ FetchBatch \/ EnrichOne \/ EnrichBatch

AllowedTransition(from, to) ==
    \/ from = to
    \/ from = "pending" /\ to \in {"fetched", "fetch_failed"}
    \/ from \in {"fetched", "fetch_failed"} /\ to \in {"enriched", "error"}

\* C6: every status change made by a fetch or enrich operation is one of
\* pending -> fetched | fetch_failed, fetched | fetch_failed -> enriched | error
OnlyAllowedTransitions ==
    [][PipelineStep =>
          \A i \in 1..Len(articles) :
              AllowedTransition(articles[i].status, articles'[i].status)]_vars

\* C7: once the status of an article is error, no fetch or enrich operation
\* changes it
ErrorIsTerminal ==
    [][PipelineStep =>
          \A i \in 1..Len(articles) :
              articles[i].status = "error" => articles'[i].status = "error"]_vars

\* the article is in fetch_failed and its content row records a non-200 response
FailedOnHttp(arts, cs, id) ==
    /\ arts[id].status = "fetch_failed"
    /\ ContentIndex(cs, id) # 0
    /\ cs[ContentIndex(cs, id)].fetch_status = "failed"
    /\ cs[ContentIndex(cs, id)].fetch_error = HttpErrorText(404)

\* the fetched and fetch_failed articles older than id
EligibleBefore(arts, id) ==
    {j \in 1..(id - 1) : arts[j].status \in {"fetched", "fetch_failed"}}

InSeq(x, seq) == \E k \in 1..Len(seq) : seq[k] = x

FailedCallOnlySetsError ==
    [][\A id \in 1..Len(articles), result \in {Absent, Incomplete} :
          enrich_article_endpoint(id, result) =>
              /\ articles'[id] = [articles[id] EXCEPT !.status = "error"]
              /\ article_tags' = article_tags]_vars

RECURSIVE SumFrom(_, _, _)
SumFrom(execs, from, f) ==
    IF from >= Len(execs) THEN 0
    ELSE execs[from + 1][f] + SumFrom(execs, from + 1, f)

\* C11: in enrichPending an exception raised while enriching one article is
\* counted as a failure, every selected article is still processed and the
\* batch returns its counts instead of raising
EnrichBatchIsolatesFailures ==
    [][\A batch_size \in BatchSizes :
          LET selected == SelectByStatus(articles, {"fetched", "fetch_failed"}, batch_size)
          IN  \A results \in Tuples(LifecycleResults, Len(selected)) :
                  enrich_pending_articles(batch_size, results) =>
                      LET run == EnrichLoop(articles, contents, tags, article_tags,
                                            [total |-> Len(selected),
                                             success |-> 0, error |-> 0],
                                            <<>>, selected, results)
                      IN  /\ raised' = FALSE
                          /\ Len(run.calls) = Len(selected)
                          /\ run.stats.success + run.stats.error = run.stats.total
      ]_vars

\* C12: in fetchPending an exception raised while fetching one article (also
\* one raised while getting or creating the content row) does not stop the
\* batch: every selected article is processed and the batch returns its counts
FetchBatchIsolatesFailures ==
    [][\A batch_size \in BatchSizes :
          LET selected == SelectByStatus(articles, {"pending"}, batch_size)
          IN  \A os \in Tuples(FaultyOutcomes, Len(selected)) :
                  fetch_pending_articles(batch_size, os) =>
                      LET run == FetchLoop(articles, contents,
                                           [total |-> Len(selected),
                                            success |-> 0, failed |-> 0],
                                           <<>>, selected, os)
                      IN  /\ raised' = FALSE
                          /\ run.calls = selected
                          /\ run.stats.success + run.stats.failed = run.stats.total
      ]_vars

\* C13: runAllSearchJobs runs every enabled job whatever happens in one of
\* them, and returns jobs_run = number of enabled jobs with total_found and
\* total_new the sums over the executions of the run
RunAllRunsEveryJob ==
    [][\A results \in Tuples(FaultyResults, Len(EnabledJobs)) :
          run_all_search_jobs(results) =>
              LET all == RunJobs(articles, executions,
                                 [jobs_run |-> 0, total_found |-> 0, total_new |-> 0],
                                 EnabledJobs, results)
              IN  /\ raised' = FALSE
                  /\ Len(executions') = Len(executions) + Len(EnabledJobs)
                  /\ all.stats.jobs_run = Len(EnabledJobs)
                  /\ all.stats.total_found
                        = SumFrom(executions', Len(executions), "articles_found")
                  /\ all.stats.total_new
                        = SumFrom(executions', Len(executions), "articles_new")
      ]_vars

IsHttpUrl(url) == Len(url) >= 2 /\ Lower(url[1]) \in {"http", "https"} /\ url[2] = ":"

\* the distinct HTTP(S) URLs among the citations
HttpCitations(citations) ==
    {citations[i] : i \in {j \in 1..Len(citations) : IsHttpUrl(citations[j])}}

\* C15: a successful runSearchJob records articles_found = number of distinct
\* HTTP(S) citation URLs and articles_new = number of articles created, with
\* articles_new <= articles_found; the citations x?utm_source=fb, x on an empty
\* store give 2 and 1
ExecutionCounts ==
    [][\A job \in 1..Len(EnabledJobs), result \in SearchResults :
          (~result.absent /\ run_search_job(EnabledJobs[job], result)) =>
              /\ executions'[Len(executions')].status = "completed"
              /\ executions'[Len(executions')].articles_found
                    = Cardinality(HttpCitations(result.citations))
              /\ executions'[Len(executions')].articles_new
                    = Len(articles') - Len(articles)
              /\ executions'[Len(executions')].articles_new
                    <= executions'[Len(executions')].articles_found
              /\ (result = TrackedThenPlain /\ articles = <<>>) =>
                    /\ executions'[Len(executions')].articles_found = 2
                    /\ executions'[Len(executions')].articles_new = 1
      ]_vars

\* C16: no DigestArticle row references an article outside the set gathered for
\* its digest: the rows a generate_digest call adds carry ids of the articles
\* it gathered, whatever ids the model lists
LinksWithinGathered ==
    [][\A k \in (Len(digest_articles) + 1)..Len(digest_articles') :
          /\ digest_articles'[k].article_id \in
                 gather_articles(articles, digest_pc.period, MAX_ARTICLES_PER_DIGEST)
          /\ digest_sections'[digest_articles'[k].section_id].digest_id = digest_pc.digest
      ]_vars

\* a section whose second listed id was linked and whose first was passed over
StrayIdIgnored ==
    \E s \in 1..Len(digest_sections) :
        /\ \E k \in 1..Len(digest_articles) :
              digest_articles[k].section_id = s /\ digest_articles[k].position = 1
        /\ \A k \in 1..Len(digest_articles) :
              digest_articles[k].section_id = s => digest_articles[k].position # 0

\* the sections of digest d
SectionsOf(d) == {s \in 1..Len(digest_sections) : digest_sections[s].digest_id = d}

DigestStatusMoves ==
    [][/\ \A d \in 1..Len(digests) :
             digests'[d].status # digests[d].status =>
                 /\ digests[d].status = "generating"
                 /\ digests'[d].status \in {"completed", "error"}
       /\ \A d \in (Len(digests) + 1)..Len(digests') :
             digests'[d].status = "generating"
       /\ (digest_pc.at # "idle" /\ digest_pc'.at = "idle") =>
             digests'[digest_pc.digest].status \in {"completed", "error"}
      ]_vars

\* the reading time retrieval is asked to account for an article
ReadingTime(article) ==
    IF article.reading_time_minutes = NONE THEN 5 ELSE article.reading_time_minutes

RECURSIVE ReadingSum(_, _)
ReadingSum(arts, ids) ==
    IF ids = <<>> THEN 0 ELSE ReadingTime(arts[Head(ids)]) + ReadingSum(arts, Tail(ids))

\* C19: whenever the plan supplies time_budget_minutes, 0 included, the reading
\* times of the articles retrieval returns (5 minutes for an article without
\* reading time) sum to at most the budget
BudgetRespected ==
    [][\A plan \in QueryPlans, synthesis \in Syntheses :
          (process_query("ai policy", plan, synthesis) /\ ~plan.absent /\ plan.time_budget # NONE) =>
              ReadingSum(articles', retrieved'.articles) <= plan.time_budget
      ]_vars

FallbackLogsAndShape ==
    [][\A query \in Queries, plan \in FallbackPlans, synthesis \in FallbackSyntheses :
          (process_query(query, plan, synthesis)
             /\ (plan.absent \/ retrieved'.articles = <<>> \/ synthesis.absent)) =>
              LET r == ProcessQuery(reading_lists, reading_list_items, interrogation_log,
                                    query, plan, retrieved'.articles, synthesis)
                  reason == IF plan.absent THEN "Could not parse query"
                            ELSE IF retrieved'.articles = <<>>
                                 THEN "No matching articles found"
                                 ELSE "Could not generate reading list"
              IN  /\ Len(interrogation_log') = Len(interrogation_log) + 1
                  /\ SubSeq(interrogation_log', 1, Len(interrogation_log)) = interrogation_log
                  /\ interrogation_log'[Len(interrogation_log')].query = query
                  /\ interrogation_log'[Len(interrogation_log')].result = reason
                  /\ interrogation_log'[Len(interrogation_log')].reading_list_id = NONE
                  /\ raised' = FALSE
                  /\ r.response.title = "Query could not be processed"
                  /\ r.response.description = reason
                  /\ r.response.sections = <<>>
                  /\ r.response.discussion_prompts = <<>>
                  /\ r.response.total_reading_time = 0
                  /\ r.response.reading_list_id = NONE
      ]_vars

\* two queries fell back for different reasons: the plan of the first was
\* absent, the second found no article
TwoFallbacksLogged ==
    /\ Len(interrogation_log) = 2
    /\ interrogation_log[1].query = "exam rules"
    /\ interrogation_log[1].result = "Could not parse query"
    /\ interrogation_log[2].query = "ai policy"
    /\ interrogation_log[2].result = "No matching articles found"
    /\ reading_lists = <<>>

\* the rows process_query added to reading_list_items in this step
NewItems == (Len(reading_list_items) + 1)..Len(reading_list_items')

\* C22: every item of a stored reading list references an article of the
\* retrieved candidate set, ids of the synthesis outside that set produce no
\* item, and the position of an item is the index of its article in the
\* article_ids of its section
ItemsWithinRetrieved ==
    [][\A plan \in QueryPlans, synthesis \in Syntheses :
          process_query("ai policy", plan, synthesis) =>
              /\ \A k \in NewItems :
                    /\ reading_list_items'[k].article_id \in Range(retrieved'.articles)
                    /\ reading_list_items'[k].reading_list_id = Len(reading_lists')
                    /\ \E s \in 1..Len(synthesis.sections) :
                          /\ reading_list_items'[k].position < Len(synthesis.sections[s].article_ids)
                          /\ synthesis.sections[s].article_ids[reading_list_items'[k].position + 1]
                                 = reading_list_items'[k].article_id
              /\ Len(reading_lists') > Len(reading_lists) =>
                    \A s \in 1..Len(synthesis.sections) :
                        \A i \in 1..Len(synthesis.sections[s].article_ids) :
                            synthesis.sections[s].article_ids[i] \in Range(retrieved'.articles) =>
                                \E k \in NewItems :
                                    /\ reading_list_items'[k].article_id
                                           = synthesis.sections[s].article_ids[i]
                                    /\ reading_list_items'[k].position = i - 1
      ]_vars

\* a stored reading list whose only item sits at position 1: the id listed
\* before it was outside the retrieved set
StrayItemDropped ==
    /\ reading_lists # <<>>
    /\ \E k \in 1..Len(reading_list_items) : reading_list_items[k].position = 1
    /\ \A k \in 1..Len(reading_list_items) :
          reading_list_items[k].reading_list_id = 1 => reading_list_items[k].position # 0

\* the integer nearest to w / 238, the even one of two that are equally near
NearestMinutes(w) ==
    CHOOSE n \in 0..(w + 1) :
        /\ 2 * (WPM * n - w) <= WPM
        /\ 2 * (w - WPM * n) <= WPM
        /\ (2 * (WPM * n - w) = WPM \/ 2 * (w - WPM * n) = WPM) => n % 2 = 0

\* C23: estimate_reading_time(w) is 1 for every w <= 0 and max(1, round(w / 238))
\* for every w > 0, so it is at least 1 and does not decrease as w grows
ReadingTimeEstimate ==
    /\ \A k \in 1..Len(minutes_out) :
          /\ minutes_out[k].words <= 0 => minutes_out[k].minutes = 1
          /\ minutes_out[k].words > 0 =>
                 minutes_out[k].minutes =
                     (IF NearestMinutes(minutes_out[k].words) >= 1
                      THEN NearestMinutes(minutes_out[k].words) ELSE 1)
          /\ minutes_out[k].minutes >= 1
    /\ \A j, k \in 1..Len(minutes_out) :
          minutes_out[j].words <= minutes_out[k].words =>
              minutes_out[j].minutes <= minutes_out[k].minutes

\* the estimates of 595 words (two and a half minutes, rounded to the even 2)
\* and of 596 words (3)
HalfwayEstimated ==
    /\ Len(minutes_out) = 2
    /\ minutes_out[1].words = 595 /\ minutes_out[1].minutes = 2
    /\ minutes_out[2].words = 596 /\ minutes_out[2].minutes = 3

\* some stored article has the dedup key of url
KeyTaken(url) == \E i \in 1..Len(articles) : articles[i].url_hash = url_hash(url)

\* C24: creating an article by hand whose URL has the dedup key of a stored
\* article is answered with a conflict (409) and leaves the store unchanged: no
\* article and no author is added
DuplicateIsConflict ==
    [][\A url \in ClientUrls, authors \in AuthorInputs :
          ((post_api(url, authors) \/ post_form(url, authors)) /\ KeyTaken(url)) =>
              /\ client_status' = 409
              /\ articles' = articles
              /\ contents' = contents
      ]_vars

\* the tracked variant of a stored URL was posted with an author and answered
\* with a conflict: the one stored article has no author
DuplicateRejected ==
    /\ client_status = 409
    /\ Len(articles) = 1
    /\ articles[1].url_hash = url_hash(PoolATracked)
    /\ articles[1].authors = <<>>

NoMutualExclusion ==
    [][\A run \in Runs, result \in LlmResults :
          enrich_step(run, result) =>
              /\ runs[run].selected # <<>>
              /\ runs'[run].calls = Append(runs[run].calls, Head(runs[run].selected))
      ]_vars

\* both invocations have selected article 1, each has called the model for it
\* and each counts it as a success: the article was enriched twice
EnrichedTwice ==
    /\ \A run \in Runs :
          /\ runs[run].at = "returned"
          /\ runs[run].calls = <<1>>
          /\ runs[run].stats = [total |-> 1, success |-> 1, error |-> 0]
    /\ articles[1].status = "enriched"

\* ids is a selection of batch_size from the articles whose status lies in S:
\* no more than batch_size of them, each with a status in S, oldest first,
\* and none passed over while there was room
SelectsOldest(arts, ids, S, batch_size) ==
    /\ Len(ids) <= batch_size
    /\ \A k \in 1..Len(ids) : ids[k] \in 1..Len(arts) /\ arts[ids[k]].status \in S
    /\ \A k \in 1..(Len(ids) - 1) : ids[k] < ids[k + 1]
    /\ \A j \in 1..Len(arts) :
          (arts[j].status \in S /\ ~InSeq(j, ids)) =>
              Len(ids) = batch_size /\ j > ids[Len(ids)]

\* the rows of the articles outside ids are the same in both tables
OthersUnchanged(before, after, ids) ==
    /\ Len(after) = Len(before)
    /\ \A j \in 1..Len(before) : ~InSeq(j, ids) => after[j] = before[j]

Unanswered(o) == (o.kind = "http" /\ o.code # 200) \/ o.kind = "timeout"

\* C28: a fetch that gets a non-200 response or times out leaves the content
\* row with fetch_status = failed and an error text ("HTTP 404" for a 404,
\* "HTTP 503" for a 503), leaves the article in fetch_failed and returns false;
\* the invocation makes no second attempt: a batch calls the fetcher once for
\* each selected article it reaches and leaves such an article in fetch_failed
FailedFetchRecorded ==
    [][/\ \A id \in 1..Len(articles), o \in SingleOutcomes :
             (fetch_article(id, o) /\ Unanswered(o)) =>
                 LET row == contents'[ContentIndex(contents', id)]
                 IN  /\ ContentIndex(contents', id) # 0
                     /\ row.fetch_status = "failed"
                     /\ row.fetch_error # NULL
                     /\ o.kind = "http" => row.http_status = o.code
                     /\ (o.kind = "http" /\ o.code = 404) => row.fetch_error = "HTTP 404"
                     /\ (o.kind = "http" /\ o.code = 503) => row.fetch_error = "HTTP 503"
                     /\ articles'[id].status = "fetch_failed"
                     /\ ~FetchArticleContent(articles, contents, id, o).success
                     /\ ~raised'
       /\ \A batch_size \in BatchSizes, n \in 0..Len(articles) :
             \A os \in Tuples(SingleOutcomes, n) :
                 fetch_pending_articles(batch_size, os) =>
                     LET selected == SelectByStatus(articles, {"pending"}, batch_size)
                         r == FetchLoop(articles, contents,
                                        [total |-> Len(selected), success |-> 0, failed |-> 0],
                                        <<>>, selected, os)
                     IN  /\ Len(r.calls) <= Len(selected)
                         /\ \A k \in 1..Len(r.calls) :
                               /\ r.calls[k] = selected[k]
                               /\ Unanswered(os[k]) =>
                                     /\ articles'[selected[k]].status = "fetch_failed"
                                     /\ r.stats.failed >= 1
      ]_vars

\* a fetch was answered 503: the content row is failed with the text of that
\* code and the article is in fetch_failed
ServerErrorRecorded ==
    /\ Len(articles) = 1
    /\ articles[1].status = "fetch_failed"
    /\ ContentIndex(contents, 1) # 0
    /\ contents[ContentIndex(contents, 1)].fetch_status = "failed"
    /\ contents[ContentIndex(contents, 1)].http_status = 503
    /\ contents[ContentIndex(contents, 1)].fetch_error = "HTTP 503"
    /\ ~raised

\* C29: on a 200 response the outcome follows from the paywall flag, the
\* length of the extracted text and its word count: a text that is absent or
\* under 100 characters gives fetch_status paywall when the flag is set and
\* failed otherwise, with the article in fetch_failed; any other text gives
\* partial exactly when the flag is set and the word count is under 200, and
\* success otherwise, with the article in fetched
ResponseClassified ==
    [][\A id \in 1..Len(articles), o \in SingleOutcomes :
          (fetch_article(id, o) /\ o.kind = "http" /\ o.code = 200) =>
              LET row == contents'[ContentIndex(contents', id)]
                  short == o.text = NULL \/ o.chars < 100
              IN  /\ ContentIndex(contents', id) # 0
                  /\ (short /\ o.paywall) =>
                        row.fetch_status = "paywall" /\ articles'[id].status = "fetch_failed"
                  /\ (short /\ ~o.paywall) =>
                        row.fetch_status = "failed" /\ articles'[id].status = "fetch_failed"
                  /\ (~short /\ o.paywall /\ o.words < 200) =>
                        row.fetch_status = "partial" /\ articles'[id].status = "fetched"
                  /\ (~short /\ ~(o.paywall /\ o.words < 200)) =>
                        row.fetch_status = "success" /\ articles'[id].status = "fetched"
      ]_vars

\* a paywalled page of exactly 200 words was fetched: success, not partial
GatedTextIsSuccess ==
    /\ Len(articles) = 1
    /\ articles[1].status = "fetched"
    /\ articles[1].word_count = 200
    /\ ContentIndex(contents, 1) # 0
    /\ contents[ContentIndex(contents, 1)].fetch_status = "success"
    /\ contents[ContentIndex(contents, 1)].full_text = "gated"

\* C30: fetch_article_content never raises to its caller: whatever exception
\* occurs during the fetch, in the session calls as well as in the request,
\* the content row ends failed with the message cut to 500 characters and the
\* article ends in fetch_failed
FetchNeverRaises ==
    [][\A id \in 1..Len(articles), o \in SingleOutcomes :
          (fetch_article(id, o) /\ o.kind \in {"exception", "db_error"}) =>
              /\ ~raised'
              /\ ContentIndex(contents', id) # 0
              /\ contents'[ContentIndex(contents', id)].fetch_status = "failed"
              /\ contents'[ContentIndex(contents', id)].fetch_error \in {"boom", "long[:500]"}
              /\ articles'[id].status = "fetch_failed"
      ]_vars

\* the content rows of article id
RowsOf(cs, id) == {k \in 1..Len(cs) : cs[k].article_id = id}

\* C31: re-fetching overwrites: after a fetch that returns, the article has
\* exactly one content row and its fetch_status, fetch_error, full_text,
\* content_hash and word_count are those the same outcome leaves on a new row,
\* with nothing kept from an earlier fetch
RefetchOverwrites ==
    [][\A id \in 1..Len(articles), o \in SingleOutcomes :
          (fetch_article(id, o) /\ o.kind # "db_error") =>
              LET row == contents'[ContentIndex(contents', id)]
                  fresh == FetchResult(articles[id], NewContent(id), o).content
              IN  /\ Cardinality(RowsOf(contents', id)) = 1
                  /\ row.fetch_status = fresh.fetch_status
                  /\ row.fetch_error = fresh.fetch_error
                  /\ row.full_text = fresh.full_text
                  /\ row.content_hash = fresh.content_hash
                  /\ row.word_count = fresh.word_count
      ]_vars

\* C32: enrichment builds the full-text prompt exactly when the article has a
\* content row whose fetch_status is success or partial and whose text is not
\* empty, and the metadata-only prompt in every other case (no row, or a row
\* that is failed, paywall or pending, or a row without text)
PromptSelection ==
    [][\A id \in 1..Len(articles), result \in LlmResults :
          enrich_article_endpoint(id, result) =>
              LET prompt == EnrichArticle(articles, contents, tags, article_tags,
                                          id, result).prompt
                  rows == {k \in 1..Len(contents) : contents[k].article_id = id}
                  usable == \E k \in rows :
                               /\ contents[k].fetch_status \in {"success", "partial"}
                               /\ contents[k].full_text # NULL
                               /\ contents[k].full_text # ""
              IN  /\ usable => prompt = "with_content"
                  /\ ~usable => prompt = "metadata_only"
      ]_vars

\* an article whose fetch was partial was enriched from its text: it carries
\* the word count of the content row, not the model's
EnrichedFromPartialText ==
    /\ Len(articles) = 1
    /\ articles[1].status = "enriched"
    /\ articles[1].word_count = 199
    /\ ContentIndex(contents, 1) # 0
    /\ contents[ContentIndex(contents, 1)].fetch_status = "partial"
    /\ contents[ContentIndex(contents, 1)].full_text = "brief"

\* C33: after a successful enrichment the article is enriched, its word_count
\* is the extracted word count of its content row when the row has one and the
\* model's estimate otherwise, and its reading time is
\* estimate_reading_time(word_count); after a successful fetch the reading time
\* follows the same formula; so every article with a word count has
\* reading_time_minutes = max(1, round(word_count / 238))
WordCountAndReadingTime ==
    [][/\ \A id \in 1..Len(articles), result \in LlmResults :
             (/\ enrich_article_endpoint(id, result)
              /\ EnrichArticle(articles, contents, tags, article_tags, id, result).success) =>
                 LET k == ContentIndex(contents, id)
                     extracted == IF k = 0 THEN NONE ELSE contents[k].word_count
                 IN  /\ articles'[id].status = "enriched"
                     /\ articles'[id].word_count =
                            IF extracted \notin {NONE, 0} THEN extracted
                            ELSE result.word_count
                     /\ articles'[id].reading_time_minutes =
                            estimate_reading_time(articles'[id].word_count)
       /\ \A i \in 1..Len(articles') :
             articles'[i].word_count # NONE =>
                 articles'[i].reading_time_minutes =
                     Max(1, Round(articles'[i].word_count, 238))
      ]_vars

\* the section rows of digest d in the table after the step
SectionsAfter(d) == {s \in 1..Len(digest_sections') : digest_sections'[s].digest_id = d}

\* C34: in a completed digest the thematic sections are stored in the order of
\* the model's response (the i-th of the response at position i - 1, with its
\* title); "Discussion Questions" and "Suggested Action Items" exist exactly
\* when their lists are not empty, after every thematic section and the
\* questions before the action items; the positions of the sections of a
\* digest are pairwise distinct
SectionsInOrder ==
    [][\A result \in DigestResults :
          (GenerateSynthesize(result) /\ digests'[digest_pc.digest].status = "completed") =>
              LET rows == SectionsAfter(digest_pc.digest)
                  themes == {s \in rows : digest_sections'[s].section_type = "theme"}
                  titled(t) == {s \in rows \ themes : digest_sections'[s].title = t}
              IN  /\ Cardinality(themes) = Len(result.sections)
                  /\ \A i \in 1..Len(result.sections) :
                        \E s \in themes :
                            /\ digest_sections'[s].position = i - 1
                            /\ digest_sections'[s].title = result.sections[i].title
                  /\ \A s \in themes, t \in themes :
                        digest_sections'[s].position < digest_sections'[t].position => s < t
                  /\ Cardinality(titled("Discussion Questions")) =
                         IF result.questions THEN 1 ELSE 0
                  /\ Cardinality(titled("Suggested Action Items")) =
                         IF result.actions THEN 1 ELSE 0
                  /\ rows \ themes =
                         titled("Discussion Questions") \cup titled("Suggested Action Items")
                  /\ \A s \in themes, t \in rows \ themes :
                        digest_sections'[s].position < digest_sections'[t].position
                  /\ \A q \in titled("Discussion Questions"),
                        a \in titled("Suggested Action Items") :
                        digest_sections'[q].position < digest_sections'[a].position
                  /\ \A s \in rows, t \in rows :
                        s # t => digest_sections'[s].position # digest_sections'[t].position
      ]_vars

\* a completed digest with the sections "risks" and "adoption" in that order
\* and the action items after them, without questions
TitledSectionsStored ==
    \E d \in 1..Len(digests) :
        /\ digests[d].status = "completed"
        /\ \E s, t, a \in SectionsOf(d) :
              /\ digest_sections[s].title = "risks" /\ digest_sections[s].position = 0
              /\ digest_sections[t].title = "adoption" /\ digest_sections[t].position = 1
              /\ digest_sections[a].title = "Suggested Action Items"
              /\ digest_sections[a].position = 3
        /\ \A s \in SectionsOf(d) : digest_sections[s].title # "Discussion Questions"

\* G is what a gathering of at most cap articles may return for the period:
\* enriched articles created in the period only, as many as the cap allows,
\* and none left out that is more relevant than one taken (an article
\* without score, NONE, being less relevant than any with one)
GathersMostRelevant(arts, G, period, cap) ==
    LET eligible == {i \in 1..Len(arts) :
                        /\ arts[i].status = "enriched"
                        /\ period[1] <= i /\ i <= period[2]}
    IN  /\ G \subseteq eligible
        /\ Cardinality(G) <= cap
        /\ Cardinality(G) < cap => G = eligible
        /\ \A i \in G, j \in eligible \ G :
              /\ arts[j].relevance_score <= arts[i].relevance_score
              /\ arts[i].relevance_score = NONE => arts[j].relevance_score = NONE

\* C35: a digest gathers only enriched articles created within the period, at
\* most 50 (at most max_articles for any other cap) and the most relevant
\* first with the articles without score last, and its article_count is the
\* number gathered
GatherForDigest ==
    [][GenerateSynthesize(PlainDigest) =>
          /\ \A cap \in {1, 2, MAX_ARTICLES_PER_DIGEST} :
                GathersMostRelevant(articles,
                                    gather_articles(articles, digest_pc.period, cap),
                                    digest_pc.period, cap)
          /\ digests'[digest_pc.digest].article_count =
                 Cardinality(gather_articles(articles, digest_pc.period,
                                             MAX_ARTICLES_PER_DIGEST))
      ]_vars

\* a completed digest over three enriched articles, one of relevance 30, one
\* without score and one of relevance 80
ThreeRanksGathered ==
    /\ Len(articles) = 3
    /\ \A i \in 1..3 : articles[i].status = "enriched"
    /\ articles[1].relevance_score = 30
    /\ articles[2].relevance_score = NONE
    /\ articles[3].relevance_score = 80
    /\ \E d \in 1..Len(digests) :
          /\ digests[d].status = "completed"
          /\ digests[d].period = <<1, MaxArticles>>
          /\ digests[d].article_count = 3

\* C36: with a time budget, retrieval returns a prefix of the sorted
\* candidates: the selection stops at the first article whose reading time
\* would take the total over the budget, and no article sorted after a
\* rejected one is returned
BudgetTakesPrefix ==
    [][\A plan \in SearchPlans, synthesis \in FallbackSyntheses :
          (process_query("exam rules", plan, synthesis) /\ BudgetSupplied(plan.time_budget)) =>
              LET sorted == Sorted(articles, plan.sort_by,
                                   Matching(articles, tags, article_tags, plan))
                  found == retrieved'.articles
              IN  /\ Len(found) <= Len(sorted)
                  /\ found = SubSeq(sorted, 1, Len(found))
      ]_vars

\* C37: retrieval falls back to the most relevant enriched articles only
\* when the full-text search found nothing, keeps an article only if it
\* carries one of the requested tags and has one of the requested content
\* types where the plan names any, returns no article twice and at most
\* max_articles articles; when it returns none, process_query answers with
\* the fallback "No matching articles found"
RetrievalFilters ==
    [][\A plan \in SearchPlans, synthesis \in FallbackSyntheses :
          process_query("exam rules", plan, synthesis) =>
              LET found == retrieved'.articles
                  enriched == {i \in 1..Len(articles) : articles[i].status = "enriched"}
              IN  /\ \A k \in 1..Len(found) :
                        /\ found[k] \in 1..Len(articles)
                        /\ plan.hits # {} => found[k] \in plan.hits
                        /\ plan.hits = {} => found[k] \in enriched
                        /\ plan.tag_filters # {} =>
                              \E l \in 1..Len(article_tags) :
                                  /\ article_tags[l].article_id = found[k]
                                  /\ tags[article_tags[l].tag_id].name \in plan.tag_filters
                        /\ plan.content_types # {} =>
                              articles[found[k]].content_type \in plan.content_types
                  /\ \A k \in 1..Len(found), l \in 1..Len(found) :
                        found[k] = found[l] => k = l
                  /\ Len(found) <= plan.max_articles
                  /\ (plan.hits = {} /\ plan.tag_filters = {} /\ plan.content_types = {}
                         /\ Cardinality(enriched) <= plan.max_articles) =>
                        Range(found) = enriched
                  /\ found = <<>> =>
                        /\ Len(interrogation_log') = Len(interrogation_log) + 1
                        /\ interrogation_log'[Len(interrogation_log')].result =
                               "No matching articles found"
                        /\ reading_lists' = reading_lists
                        /\ raised' = FALSE
      ]_vars

\* a query whose hits are an enriched article of another content type and the
\* id of no article found nothing and was logged as such, while an enriched
\* article stood in the store
FilteredToNothing ==
    /\ retrieved.plan.content_types = {"report"}
    /\ retrieved.articles = <<>>
    /\ Len(articles) = 2
    /\ articles[2].status = "enriched" /\ articles[2].content_type = "news"
    /\ articles[1].status = "enriched" /\ articles[1].content_type = "report"
    /\ Len(interrogation_log) >= 1
    /\ interrogation_log[Len(interrogation_log)].result = "No matching articles found"

\* C38: while both batches keep being invoked, every article whose own
\* processing does not fail eventually reaches enriched or error, even if the
\* processing of an older article fails with an exception every time
EveryArticleProcessed ==
    \A id \in 2..MaxArticles :
        [](Len(articles) >= id =>
               <>(Len(articles) >= id /\ articles[id].status \in {"enriched", "error"}))

\* C39: a digest in error has no section row and no article link, wherever
\* its generation failed
ErrorDigestIsEmpty ==
    \A d \in 1..Len(digests) :
        digests[d].status = "error" =>
            /\ SectionsOf(d) = {}
            /\ \A l \in 1..Len(digest_articles) :
                  digest_articles[l].section_id \notin SectionsOf(d)

\* C40: when discovery runs overlap, the committed table never holds two
\* articles with the same url_hash, and no run ends with an exception: each
\* run that has ended returned, with its execution in completed or error
OverlappingRunsFinish ==
    /\ \A i \in 1..Len(articles) : \A j \in 1..Len(articles) :
          articles[i].url_hash = articles[j].url_hash => i = j
    /\ \A run \in Runs :
          /\ searches[run].at # "raised"
          /\ searches[run].at = "returned" =>
                 executions[searches[run].execution].status \in {"completed", "error"}

====
